---------------------------- MODULE Spec2Model ----------------------------
(***************************************************************************)
(* Verification model of the Agora multisig client (Gohlub/agora).         *)
(*                                                                         *)
(* The module holds twelve state machines:                                 *)
(*   SpecPoll   - the block-inclusion polls of utils/tx-lifecycle.ts       *)
(*   SpecAccept - checkTransactionAcceptance of utils/tx-lifecycle.ts      *)
(*   SpecSelect - selectNotesForAmount of utils/wasm-utils.ts              *)
(*   SpecGrpc   - the per-endpoint GrpcClient cache of utils/wasm-utils.ts *)
(*   Spec       - the proposal / broadcast flows of the components         *)
(*   SpecServer - the proposal endpoints of the coordination server as the *)
(*                requests of services/api.ts reach them                   *)
(*   SpecCreate - the WalletCreate form and the lock root it derives       *)
(*   SpecBuild  - buildUnsignedMultisigSpendTx of utils/wasm-utils.ts      *)
(*   SpecMerge  - handleBroadcast on stored fragments of any content       *)
(*   SpecWasm   - WasmResourceManager and the functions that free or hand  *)
(*                it the WASM objects they allocate                        *)
(*   SpecList   - the funding marks and the inclusion polls of WalletList  *)
(*   SpecValidate - validateSignedTransaction of utils/wasm-utils.ts       *)
(***************************************************************************)
EXTENDS Integers, Sequences, FiniteSets, TLC

(***************************************************************************)
(* Bounds of the model.                                                    *)
(***************************************************************************)
MaxNow == 3            \* the clock runs from 0 to MaxNow interval units
MaxIntervalMs == 2     \* options.intervalMs is drawn from 1..MaxIntervalMs
MaxDurationMs == 2     \* options.maxDurationMs is drawn from 1..MaxDurationMs
NumEndpoints == 2      \* gRPC endpoints are 1..NumEndpoints
NumCallers == 2        \* concurrent callers of getGrpcClient are 1..NumCallers
MaxConstructions == 2  \* at most this many cached constructions are ever started
MaxInstances == 3      \* at most this many GrpcClient objects are ever created
NumSigners == 3        \* the wallet's participants are 1..NumSigners
NumClients == 2        \* browser clients 1..NumClients; client c holds the key of signer c
NumFunders == 1        \* clients 1..NumFunders also fund the wallet from their own notes
MaxThreshold == 2      \* the wallet's threshold is drawn from 1..MaxThreshold
MaxAttempts == 3       \* options.maxAttempts is drawn from 0..MaxAttempts
MaxNotes == 3          \* selectNotesForAmount is given 0..MaxNotes notes
MaxAssets == 3         \* a note handed to the selection holds 1..MaxAssets nicks
MaxTarget == 7         \* targetAmountNicks is drawn from 0..MaxTarget
MaxSignerRows == 3     \* the wallet form holds at most this many signer rows
MaxSelected == 2       \* the builder is handed at most this many notes
MaxSeeds == 2          \* and at most this many seeds
MaxHandles == 7        \* WASM objects allocated in one run
MaxOwn == 2            \* of them constructed by the component itself
MaxRegistered == 4     \* the manager's list holds at most this many entries
NumWallets == 2        \* multisig wallets shown by the wallet list
MaxFundings == 3       \* calls of handleFundWallet in one run
MaxNotePolls == 2      \* inclusion polls started in one run

VARIABLES
    \* ---- pollForTransactionInclusionWithCleanup (one call) ----
    now,            \* Date.now(), shared by both polls
    intervalMs,     \* options.intervalMs
    maxDurationMs,  \* options.maxDurationMs
    timeoutId,      \* let timeoutId (0 is null)
    isCleanedUp,    \* let isCleanedUp
    attempt,        \* let attempt
    pollPc,         \* where poll() stands: "unstarted", "awaitCheck", "idle"
    promise,        \* state of the returned promise
    timers,         \* timers of this poll pending in the event loop: [id, due]
    nextTimer,      \* the id setTimeout returns next
    cleanupAt,      \* what the poll was doing when cleanup() was first called from outside
    checkAfterCleanup,  \* checkFn was invoked while isCleanedUp was already set
    onIncludedCalls,    \* how often options.onIncluded ran
    includedAfterCleanup, \* onIncluded ran / promise resolved after an outside cleanup()
    \* ---- pollForTransactionInclusion (one call) ----
    pPc,            \* "unstarted", "awaitCheck", "idle"
    pAttempt,       \* let attempt
    pPromise,       \* state of the returned promise
    pTimers,        \* due times of its pending timers
    pSawIncluded,   \* checkFn returned true
    pSawTimeout,    \* elapsed >= maxDurationMs was observed
    \* ---- checkTransactionAcceptance (one call) ----
    aVariant,       \* "client": it is handed the GrpcClient; "getter": a getGrpcClient function
    aMaxAttempts,   \* options.maxAttempts
    aIntervalMs,    \* options.intervalMs
    aAttempt,       \* let attempt of the for loop
    aPc,            \* "unstarted", "getClient", "query", "wait", "returned_true", "threw"
    aQueries,       \* how often grpcClient.transactionAccepted was called
    aWaits,         \* how often setTimeout(resolve, intervalMs) was awaited
    aClock,         \* the time spent waiting so far
    aDue,           \* when the awaited timer fires
    aSawAccepted,   \* transactionAccepted answered true
    \* ---- selectNotesForAmount (one call) ----
    selNotes,       \* the argument notes: a sequence of [id, assets]
    selTarget,      \* the argument targetAmountNicks
    selPc,          \* "ready", "returned"
    selResult,      \* what it returned: [null |-> TRUE/FALSE, selected |-> sequence]
    \* ---- the requests that reached the proposal endpoints ----
    submitted,      \* the signer_pkh of every signature submission delivered so far
    response,       \* what the server answered to the last request
    \* ---- module state of utils/wasm-utils.ts (and utils/wasm-cleanup.ts) ----
    wasmInitialized,     \* let wasmInitialized
    wasmInitializing,    \* let wasmInitializing: "null" or the state of that promise
    grpcClients,         \* Map endpoint -> GrpcClient (0: no entry)
    grpcClientPromises,  \* Map endpoint -> construction promise (0: no entry)
    promiseState,        \* construction promise -> "unused", "pending", "fulfilled", "rejected"
    promiseEp,           \* construction promise -> its endpoint
    promiseVal,          \* construction promise -> the client it resolved to
    instances,           \* every GrpcClient object created so far
    callers,             \* the callers of getGrpcClient
    \* ---- getConnectedProvider (signing oracle handle of a component) ----
    providerRef,         \* providerRef.current: "null", "disconnected", "connected"
    provPc,              \* "idle", "connecting"
    provFailed,          \* the last connection attempt failed
    \* ---- the wallet, the coordination server, the ledger, the components ----
    threshold,           \* the wallet's threshold (locks.threshold)
    participants,        \* wallet.participants as the server lists them
    lockRootHash,        \* wallet.lock_root_hash, derived when the wallet was created
    balanceNotes,        \* the wallet's notes as the balance query returns them
    seeds,               \* the seeds typed into the form (amounts in nicks)
    proposal,            \* the proposal row and its proposal_signatures rows
    history,             \* transaction_history: the recorded transaction ids
    mempool,             \* the transactions the node was sent ("spend", "fund")
    flow,                \* per client: the handler it is running and where it stands
    \* ---- WalletCreate, the form that creates a multisig wallet ----
    wcVariant,           \* "input": threshold typed into a number field; "dropdown": chosen from 1..n
    wcPkh,               \* the connected wallet's pkh, Blank when none is connected
    wcThreshold,         \* useState threshold
    wcSignerPkhs,        \* useState signerPkhs
    wcError,             \* useState error
    wcLockRootHash,      \* what computeLockRootHash returned to handleSubmit, NoLock before
    wcRequest,           \* the arguments of apiClient.createMultisig, NoRequest before
    wcPc,                \* "form" or, after navigate('/wallets'), "navigated"
    \* ---- buildUnsignedMultisigSpendTx and the signature that follows it ----
    bNotes,              \* selectedNotes
    bSeeds,              \* seeds
    bWords,              \* the size in words the library finds the assembled transaction to have
    bPc,                 \* "ready" or "returned"
    bResult,             \* what the function returned or threw
    bSigned,             \* provider.signRawTx was called with the result
    \* ---- handleBroadcast from getProposal to sendTransaction, on any stored fragments ----
    mFrags,              \* proposal.signatures: signer, reported id and the spends' seeds
    mThreshold,          \* proposal.threshold
    mPc,                 \* "loaded" or "returned"
    mResult,             \* how the handler ended and what it sent
    \* ---- WasmResourceManager and the functions that hand WASM objects to it ----
    rmObjects,           \* manager.objects, in registration order
    rmFreed,             \* manager.freedObjects
    hNext,               \* the next WASM object to be allocated
    hFreeCalls,          \* per WASM object: how many times free() was invoked on it
    hRegistered,         \* the objects ever passed to register or registerAll
    hCaller,             \* the objects the component constructed itself
    rmLast,              \* the last call: its name, what it acquired, what cleanup() saw and freed
    \* ---- components/WalletList.tsx: the funding marks and the inclusion polls ----
    wlVariant,           \* "WalletList": WalletList.tsx; "part_004": its earlier version
    isMountedRef,        \* isMountedRef.current
    funding,             \* the state funding: lock roots shown as 'Funding...'
    fundOps,             \* the calls of handleFundWallet: [pc, wallet, captured]
    pollingWallets,      \* the state pollingWallets
    pollingCleanups,     \* pollingCleanups.current: lock root -> poll (0: no entry)
    notePolls,           \* the inclusion polls started: [pc, wallet, cleaned, onIncluded]
    \* ---- validateSignedTransaction (one call) ----
    vVersion,            \* "wasm-utils": utils/wasm-utils.ts; "part_007": its earlier version
    vParams,             \* what the call meets: the WASM initialisation, the input, the builder
    vPc,                 \* "called" or "settled"
    vResult              \* what the returned promise settled to

pollVars == <<now, intervalMs, maxDurationMs, timeoutId, isCleanedUp, attempt,
              pollPc, promise, timers, nextTimer, cleanupAt, checkAfterCleanup,
              onIncludedCalls, includedAfterCleanup,
              pPc, pAttempt, pPromise, pTimers, pSawIncluded, pSawTimeout>>

grpcVars == <<wasmInitialized, wasmInitializing, grpcClients, grpcClientPromises,
              promiseState, promiseEp, promiseVal, instances, callers,
              providerRef, provPc, provFailed>>

coordVars == <<threshold, participants, lockRootHash, balanceNotes, seeds, proposal,
               history, mempool, flow>>

acceptVars == <<aVariant, aMaxAttempts, aIntervalMs, aAttempt, aPc, aQueries, aWaits,
                aClock, aDue, aSawAccepted>>

selVars == <<selNotes, selTarget, selPc, selResult>>

srvVars == <<submitted, response>>

wcVars == <<wcVariant, wcPkh, wcThreshold, wcSignerPkhs, wcError, wcLockRootHash,
            wcRequest, wcPc>>

buildVars == <<bNotes, bSeeds, bWords, bPc, bResult, bSigned>>

mergeVars == <<mFrags, mThreshold, mPc, mResult>>

wasmVars == <<rmObjects, rmFreed, hNext, hFreeCalls, hRegistered, hCaller, rmLast>>

listVars == <<wlVariant, isMountedRef, funding, fundOps, pollingWallets, pollingCleanups, notePolls>>

validateVars == <<vVersion, vParams, vPc, vResult>>

vars == <<pollVars, grpcVars, coordVars, acceptVars, selVars, srvVars, wcVars, buildVars,
          mergeVars,
    wasmVars, listVars, validateVars>>

\* What the actions of one machine leave alone.
notPoll == <<grpcVars, coordVars, acceptVars, selVars, srvVars, wcVars, buildVars,
    mergeVars,
    wasmVars, listVars, validateVars>>
notGrpc == <<pollVars, coordVars, acceptVars, selVars, srvVars, wcVars, buildVars,
    mergeVars,
    wasmVars, listVars, validateVars>>
notCoord == <<pollVars, grpcVars, acceptVars, selVars, srvVars, wcVars, buildVars,
    mergeVars,
    wasmVars, listVars, validateVars>>
notAccept == <<pollVars, grpcVars, coordVars, selVars, srvVars, wcVars, buildVars,
    mergeVars,
    wasmVars, listVars, validateVars>>
notSelect == <<pollVars, grpcVars, coordVars, acceptVars, srvVars, wcVars, buildVars,
    mergeVars,
    wasmVars, listVars, validateVars>>
notServer == <<pollVars, grpcVars, acceptVars, selVars, wcVars, buildVars,
    mergeVars,
    wasmVars, listVars, validateVars>>
notCreate == <<pollVars, grpcVars, coordVars, acceptVars, selVars, srvVars, buildVars,
    mergeVars,
    wasmVars, listVars, validateVars>>
notBuild == <<pollVars, grpcVars, coordVars, acceptVars, selVars, srvVars, wcVars,
    mergeVars,
    wasmVars, listVars, validateVars>>
notMerge == <<pollVars, grpcVars, coordVars, acceptVars, selVars, srvVars, wcVars,
    buildVars,
    wasmVars, listVars, validateVars>>
notWasm == <<pollVars, grpcVars, coordVars, acceptVars, selVars, srvVars,
    wcVars, buildVars, mergeVars, listVars, validateVars>>
notList == <<pollVars, grpcVars, coordVars, acceptVars, selVars, srvVars,
    wcVars, buildVars, mergeVars, wasmVars, validateVars>>
notValidate == <<pollVars, grpcVars, coordVars, acceptVars, selVars, srvVars,
    wcVars, buildVars, mergeVars, wasmVars, listVars>>

(***************************************************************************)
(* The wallet, its notes and the transaction identifiers                   *)
(***************************************************************************)
Signers == 1..NumSigners
Clients == 1..NumClients

FeePerWord == 32768       \* nicks per word (0.5 NOCK)
NicksPerNock == 65536
AmountScale == 12288      \* amountNock is counted in 1/12288 of a NOCK
NoteAssets == {100000, 4000000}   \* what a note of the wallet can hold, in nicks

\* The participants in the order the wallet was created with, and the same
\* participants with the first two exchanged (lock_participants keeps no order).
CreatedParticipants == [i \in Signers |-> i]
SwappedParticipants ==
    [i \in Signers |-> IF i = 1 THEN 2 ELSE IF i = 2 THEN 1 ELSE i]

\* buildMultisigSpendCondition(threshold, participants).firstName(): a hash
\* of the threshold and of the participants in the order given.
LockRoot(t, ps) == [t |-> t, ps |-> ps]
MissingName == [t |-> 0, ps |-> <<>>]

\* A transaction identifier is a hash of the transaction's content, the
\* witnesses of its spends included: a signature changes it.
TxId(kind, wit) == [kind |-> kind, wit |-> wit]
NoId == TxId("none", {})
UnsignedId == TxId("spend", {})
RecalcId(wit) == TxId("spend", wit)

NoFragment == [signer |-> 0, id |-> NoId]
NoProposal ==
    [status |-> "none", threshold |-> 0, proposer_pkh |-> 0, signatures |-> <<>>,
     tx_id |-> NoId, final_tx_id |-> NoId]

IdleFlow ==
    [op |-> "idle", variant |-> "none", pc |-> "idle", wit |-> {},
     pollIds |-> <<>>, validated |-> FALSE,
     mergeCalled |-> FALSE, signed |-> FALSE, sent |-> FALSE, polled |-> {},
     timedOut |-> FALSE, markArg |-> NoId, frag |-> NoFragment,
     report |-> "none"]

\* The wallet as the server and the balance query present it, nothing proposed.
walletLoaded(thresholds, orders, assets, names) ==
    /\ threshold \in thresholds
    /\ participants \in orders
    /\ lockRootHash = LockRoot(threshold, CreatedParticipants)
    /\ balanceNotes \in
          {<<[assets |-> a, first |-> IF n = "recorded" THEN lockRootHash ELSE MissingName]>> :
             a \in assets, n \in names}
    /\ seeds = <<[amountNock |-> AmountScale]>>
    /\ proposal = NoProposal
    /\ history = {}
    /\ mempool = {}
    /\ flow = [c \in Clients |-> IdleFlow]

\* The wallet while the other machines run: nothing is proposed or sent.
WalletAtRest ==
    /\ walletLoaded({1}, {CreatedParticipants}, {4000000}, {"recorded"})
    /\ submitted = {}
    /\ response = "none"

(***************************************************************************)
(* utils/tx-lifecycle.ts                                                   *)
(***************************************************************************)

\* What checkFn() can do: resolve true, resolve false, or throw.
CheckResults == {"true", "false", "throw"}

\* A promise settles once: later resolve/reject calls are ignored.
Settle(p, v) == IF p = "pending" THEN v ELSE p

\* The two polls before they are started; the options are the caller's.
pollsUnstarted(intervals, durations) ==
    /\ now = 0
    /\ intervalMs \in intervals
    /\ maxDurationMs \in durations
    /\ timeoutId = 0
    /\ isCleanedUp = FALSE
    /\ attempt = 0
    /\ pollPc = "unstarted"
    /\ promise = "pending"
    /\ timers = {}
    /\ nextTimer = 1
    /\ cleanupAt = "none"
    /\ checkAfterCleanup = FALSE
    /\ onIncludedCalls = 0
    /\ includedAfterCleanup = FALSE
    /\ pPc = "unstarted"
    /\ pAttempt = 0
    /\ pPromise = "pending"
    /\ pTimers = {}
    /\ pSawIncluded = FALSE
    /\ pSawTimeout = FALSE

\* No poll is ever started (the state the other two machines leave the polls in).
NoPoll == pollsUnstarted({1}, {1})

\* The module state of wasm-utils.ts when the page has loaded.
GrpcLoaded ==
    /\ wasmInitialized = FALSE
    /\ wasmInitializing = "null"
    /\ grpcClients = [e \in 1..NumEndpoints |-> 0]
    /\ grpcClientPromises = [e \in 1..NumEndpoints |-> 0]
    /\ promiseState = [p \in 1..MaxConstructions |-> "unused"]
    /\ promiseEp = [p \in 1..MaxConstructions |-> 0]
    /\ promiseVal = [p \in 1..MaxConstructions |-> 0]
    /\ instances = {}
    /\ callers = [c \in 1..NumCallers |-> [pc |-> "idle", ep |-> 0, awaits |-> 0, got |-> 0]]
    /\ providerRef = "null"
    /\ provPc = "idle"
    /\ provFailed = FALSE

\* checkTransactionAcceptance before it is called; the options are the caller's.
acceptUnstarted(variants, attempts, intervals) ==
    /\ aVariant \in variants
    /\ aMaxAttempts \in attempts
    /\ aIntervalMs \in intervals
    /\ aAttempt = 0
    /\ aPc = "unstarted"
    /\ aQueries = 0
    /\ aWaits = 0
    /\ aClock = 0
    /\ aDue = 0
    /\ aSawAccepted = FALSE

\* No acceptance check is ever started.
NoAcceptance == acceptUnstarted({"getter"}, {1}, {1})

\* The notes a caller can hand to selectNotesForAmount: up to maxLen notes
\* in balance order, each with its position as identity.
NoteLists(maxLen, maxAssets) ==
    UNION {[1..n -> 1..maxAssets] : n \in 0..maxLen}

selectionReady(maxLen, maxAssets, targets) ==
    /\ selNotes \in {[i \in DOMAIN a |-> [id |-> i, assets |-> a[i]]] :
                        a \in NoteLists(maxLen, maxAssets)}
    /\ selTarget \in targets
    /\ selPc = "ready"
    /\ selResult = [null |-> TRUE, selected |-> <<>>]

\* No selection is ever made.
NoSelection == selectionReady(0, 1, {1})

\* What a signer field of the wallet form can hold: nothing, white space
\* only, or one of two pkhs.
Blank == 0
Spaces == 0 - 1
TypedPkhs == {Blank, Spaces, 1, 2}
NoLock == MissingName
NoRequest ==
    [lock_root_hash |-> NoLock, threshold |-> 0, total_signers |-> 0,
     participants |-> <<>>, created_by |-> Blank]

\* WalletCreate as it mounts: useState(2) for the threshold, the connected
\* pkh (or one empty field) as the only signer; with the dropdown the effect
\* that keeps the threshold within the number of rows has run.
formMounted(variants, pkhs) ==
    /\ wcVariant \in variants
    /\ wcPkh \in pkhs
    /\ wcSignerPkhs = <<wcPkh>>
    /\ wcThreshold = IF wcVariant = "dropdown" THEN 1 ELSE 2
    /\ wcError = "null"
    /\ wcLockRootHash = NoLock
    /\ wcRequest = NoRequest
    /\ wcPc = "form"

\* The wallet form is never used.
NoCreate == formMounted({"dropdown"}, {Blank})

NoTx == [outcome |-> "none", spends |-> <<>>, calcFee |-> 0, curFee |-> 0, steps |-> <<>>]

\* What buildUnsignedMultisigSpendTx can be called with: notes with their
\* position as identity, seeds with an amount, and the word count the
\* library will find.
buildReady(noteLists, seedLists, wordCounts) ==
    /\ bNotes \in {[i \in DOMAIN a |-> [id |-> i, assets |-> a[i]]] : a \in noteLists}
    /\ bSeeds \in {[i \in DOMAIN a |-> [amountNock |-> a[i]]] : a \in seedLists}
    /\ bWords \in wordCounts
    /\ bPc = "ready"
    /\ bResult = NoTx
    /\ bSigned = FALSE

\* Nothing is ever built.
NoBuild == buildReady({<<>>}, {<<>>}, {1})

NoMerged == [outcome |-> "none", seeds |-> 0, wit |-> {}, id |-> NoId, sent |-> FALSE]

\* The fragments the server can hold for a proposal: one per signer, each
\* under the id its extension reported and with the seed amount it signed.
fragmentsLoaded(lengths, seedAmounts, thresholds) ==
    /\ mFrags \in UNION {
          {f \in [1..n -> [signer : Signers,
                           id : {UnsignedId} \cup {RecalcId({x}) : x \in Signers},
                           seeds : seedAmounts]] :
               /\ \A i, j \in 1..n : i # j => f[i].signer # f[j].signer
               /\ \A i \in 1..n : f[i].id \in {UnsignedId, RecalcId({f[i].signer})}} :
          n \in lengths}
    /\ mThreshold \in thresholds
    /\ mPc = "loaded"
    /\ mResult = NoMerged

\* No proposal is ever merged outside the flows of the clients.
NoMerge == fragmentsLoaded({0}, {1}, {1})

\* No WASM object was allocated and the manager is empty.
NoCall == [op |-> "none", acquired |-> {}, objects |-> <<>>, freedBefore |-> {}, frees |-> <<>>]

managerCreated ==
    /\ rmObjects = <<>>
    /\ rmFreed = {}
    /\ hNext = 1
    /\ hFreeCalls = [h \in 1..MaxHandles |-> 0]
    /\ hRegistered = {}
    /\ hCaller = {}
    /\ rmLast = NoCall

\* WalletList is mounted, nothing is being funded or polled.
NoFundOp == [pc |-> "unused", wallet |-> 0, captured |-> {}]
NoNotePoll == [pc |-> "unused", wallet |-> 0, cleaned |-> FALSE, onIncluded |-> FALSE]

listMounted(variants) ==
    /\ wlVariant \in variants
    /\ isMountedRef = TRUE
    /\ funding = {}
    /\ fundOps = [i \in 1..MaxFundings |-> NoFundOp]
    /\ pollingWallets = {}
    /\ pollingCleanups = [w \in 1..NumWallets |-> 0]
    /\ notePolls = [p \in 1..MaxNotePolls |-> NoNotePoll]

NoList == listMounted({"WalletList"})

\* validateSignedTransaction has been called and has not settled.
NoVerdict == [threw |-> FALSE, valid |-> FALSE, error |-> "none"]

validationCalled(versions, inits, flags) ==
    /\ vVersion \in versions
    /\ vParams \in [wasmInitialised : inits, malformed : flags, mismatch : flags,
                    validateFails : flags, recalcIdFails : flags, cleanup : flags]
    /\ vPc = "called"
    /\ vResult = NoVerdict

NoValidation == validationCalled({"wasm-utils"}, {TRUE}, {FALSE})

\* cleanup() with the clearTimeout left out: only the flag is set.
cleanupNoClear(pending) ==
    /\ isCleanedUp' = TRUE
    /\ timers' = pending
    /\ UNCHANGED timeoutId

\* const cleanup = () => { isCleanedUp = true;
\*   if (timeoutId !== null) { clearTimeout(timeoutId); timeoutId = null; } }
\* `pending` are the timers of the poll that are in the event loop when it is called.
cleanup(pending) ==
    /\ isCleanedUp' = TRUE
    /\ IF timeoutId # 0
          THEN /\ timers' = {t \in pending : t.id # timeoutId}
               /\ timeoutId' = 0
          ELSE /\ timers' = pending
               /\ UNCHANGED timeoutId

\* poll() from its entry to its first await; `pending` are the timers left in the
\* event loop when poll() is entered.
poll(pending) ==
    IF isCleanedUp
    THEN /\ promise' = Settle(promise, "rejected_cancelled")
         /\ timers' = pending
         /\ UNCHANGED <<timeoutId, isCleanedUp, attempt, pollPc, checkAfterCleanup>>
    ELSE IF now - 0 >= maxDurationMs
    THEN /\ cleanup(pending)
         /\ promise' = Settle(promise, "rejected_timeout")
         /\ pollPc' = "idle"
         /\ UNCHANGED <<attempt, checkAfterCleanup>>
    ELSE /\ attempt' = attempt + 1
         /\ pollPc' = "awaitCheck"
         /\ checkAfterCleanup' = (checkAfterCleanup \/ isCleanedUp)
         /\ timers' = pending
         /\ UNCHANGED <<timeoutId, isCleanedUp, promise>>

\* if (!isCleanedUp) { timeoutId = setTimeout(poll, intervalMs); }
scheduleNext ==
    IF ~isCleanedUp
    THEN /\ timeoutId' = nextTimer
         /\ timers' = timers \cup {[id |-> nextTimer, due |-> now + intervalMs]}
         /\ nextTimer' = nextTimer + 1
    ELSE UNCHANGED <<timeoutId, timers, nextTimer>>

\* pollForTransactionInclusionWithCleanup(checkFn, options): the promise executor
\* calls poll() at once.
PollStart ==
    /\ UNCHANGED notPoll
    /\ pollPc = "unstarted"
    /\ poll(timers)
    /\ UNCHANGED <<now, intervalMs, maxDurationMs, nextTimer, cleanupAt,
                   onIncludedCalls, includedAfterCleanup>>
    /\ UNCHANGED <<pPc, pAttempt, pPromise, pTimers, pSawIncluded, pSawTimeout>>

\* The caller invokes the returned cleanup() (component teardown, stopPollingForNote).
PollCleanup ==
    /\ UNCHANGED notPoll
    /\ pollPc # "unstarted"
    /\ cleanup(timers)
    /\ cleanupAt' = IF cleanupAt # "none" THEN cleanupAt
                    ELSE IF isCleanedUp THEN "afterEnd"
                    ELSE IF pollPc = "awaitCheck" THEN "inFlight"
                    ELSE "timerPending"
    /\ UNCHANGED <<now, intervalMs, maxDurationMs, attempt, pollPc, promise, nextTimer,
                   checkAfterCleanup, onIncludedCalls, includedAfterCleanup>>
    /\ UNCHANGED <<pPc, pAttempt, pPromise, pTimers, pSawIncluded, pSawTimeout>>

\* A pending timer of the poll comes due and the event loop runs poll().
PollTimerFire ==
    /\ UNCHANGED notPoll
    /\ \E t \in timers :
          /\ now >= t.due
          /\ poll(timers \ {t})
    /\ UNCHANGED <<now, intervalMs, maxDurationMs, nextTimer, cleanupAt,
                   onIncludedCalls, includedAfterCleanup>>
    /\ UNCHANGED <<pPc, pAttempt, pPromise, pTimers, pSawIncluded, pSawTimeout>>

\* await checkFn() settles and poll() runs to its end.
PollCheckReturn ==
    /\ UNCHANGED notPoll
    /\ pollPc = "awaitCheck"
    /\ \E r \in CheckResults :
          IF r = "true"
          THEN /\ cleanup(timers)
               /\ onIncludedCalls' = onIncludedCalls + 1
               /\ promise' = Settle(promise, "resolved_true")
               /\ includedAfterCleanup' = (includedAfterCleanup \/ cleanupAt # "none")
               /\ pollPc' = "idle"
               /\ UNCHANGED nextTimer
          ELSE /\ pollPc' = "idle"
               /\ scheduleNext
               /\ UNCHANGED <<isCleanedUp, promise, onIncludedCalls, includedAfterCleanup>>
    /\ UNCHANGED <<now, intervalMs, maxDurationMs, attempt, cleanupAt, checkAfterCleanup>>
    /\ UNCHANGED <<pPc, pAttempt, pPromise, pTimers, pSawIncluded, pSawTimeout>>

\* pollForTransactionInclusion: poll() from its entry to its first await.
plainPoll(pending) ==
    IF now - 0 >= maxDurationMs
    THEN /\ pPromise' = Settle(pPromise, "rejected_timeout")
         /\ pSawTimeout' = TRUE
         /\ pPc' = "idle"
         /\ pTimers' = pending
         /\ UNCHANGED pAttempt
    ELSE /\ pAttempt' = pAttempt + 1
         /\ pPc' = "awaitCheck"
         /\ pTimers' = pending
         /\ UNCHANGED <<pPromise, pSawTimeout>>

PlainStart ==
    /\ UNCHANGED notPoll
    /\ pPc = "unstarted"
    /\ plainPoll(pTimers)
    /\ UNCHANGED pSawIncluded
    /\ UNCHANGED <<now, intervalMs, maxDurationMs, timeoutId, isCleanedUp, attempt,
                   pollPc, promise, timers, nextTimer, cleanupAt, checkAfterCleanup,
                   onIncludedCalls, includedAfterCleanup>>

PlainTimerFire ==
    /\ UNCHANGED notPoll
    /\ \E d \in pTimers :
          /\ now >= d
          /\ plainPoll(pTimers \ {d})
    /\ UNCHANGED pSawIncluded
    /\ UNCHANGED <<now, intervalMs, maxDurationMs, timeoutId, isCleanedUp, attempt,
                   pollPc, promise, timers, nextTimer, cleanupAt, checkAfterCleanup,
                   onIncludedCalls, includedAfterCleanup>>

PlainCheckReturn ==
    /\ UNCHANGED notPoll
    /\ pPc = "awaitCheck"
    /\ \E r \in CheckResults :
          IF r = "true"
          THEN /\ pPromise' = Settle(pPromise, "resolved_true")
               /\ pSawIncluded' = TRUE
               /\ pPc' = "idle"
               /\ UNCHANGED pTimers
          ELSE /\ pTimers' = pTimers \cup {now + intervalMs}
               /\ pPc' = "idle"
               /\ UNCHANGED <<pPromise, pSawIncluded>>
    /\ UNCHANGED <<pAttempt, pSawTimeout>>
    /\ UNCHANGED <<now, intervalMs, maxDurationMs, timeoutId, isCleanedUp, attempt,
                   pollPc, promise, timers, nextTimer, cleanupAt, checkAfterCleanup,
                   onIncludedCalls, includedAfterCleanup>>

\* Time passes.
Tick ==
    /\ UNCHANGED notPoll
    /\ now < MaxNow
    /\ now' = now + 1
    /\ UNCHANGED <<intervalMs, maxDurationMs, timeoutId, isCleanedUp, attempt,
                   pollPc, promise, timers, nextTimer, cleanupAt, checkAfterCleanup,
                   onIncludedCalls, includedAfterCleanup,
                   pPc, pAttempt, pPromise, pTimers, pSawIncluded, pSawTimeout>>

NextPoll ==
    \/ PollStart
    \/ PollCleanup
    \/ PollTimerFire
    \/ PollCheckReturn
    \/ PlainStart
    \/ PlainTimerFire
    \/ PlainCheckReturn
    \/ Tick

InitPoll ==
    /\ pollsUnstarted(1..MaxIntervalMs, 1..MaxDurationMs)
    /\ GrpcLoaded
    /\ WalletAtRest
    /\ NoAcceptance
    /\ NoSelection
    /\ NoCreate
    /\ NoBuild
    /\ NoMerge
    /\ managerCreated
    /\ NoList
    /\ NoValidation

SpecPoll == InitPoll /\ [][NextPoll]_vars

(***************************************************************************)
(* utils/tx-lifecycle.ts: checkTransactionAcceptance                       *)
(***************************************************************************)
\* The head of `for (let attempt = 0; attempt < maxAttempts; attempt++)`
\* with attempt = att: the body is entered, or the loop is left and the
\* function throws new Error(errorMessage).
loopHead(att) ==
    /\ aAttempt' = att
    /\ aPc' = IF att < aMaxAttempts
              THEN (IF aVariant = "getter" THEN "getClient" ELSE "query")
              ELSE "threw"

\* The same step with the test on the last attempt left out: it always waits.
waitAlways(att) ==
    /\ aPc' = "wait"
    /\ aWaits' = aWaits + 1
    /\ aDue' = aClock + aIntervalMs
    /\ UNCHANGED aAttempt

\* if (attempt < maxAttempts - 1) { await new Promise(r => setTimeout(r, intervalMs)); }
\* as it stands both after a `false` answer and in the catch; after the
\* last attempt the loop goes straight to attempt++ and its test.
waitBeforeNext(att) ==
    IF att < aMaxAttempts - 1
    THEN /\ aPc' = "wait"
         /\ aWaits' = aWaits + 1
         /\ aDue' = aClock + aIntervalMs
         /\ UNCHANGED aAttempt
    ELSE /\ loopHead(att + 1)
         /\ UNCHANGED <<aWaits, aDue>>

\* The function is called.
AcceptStart ==
    /\ UNCHANGED notAccept
    /\ aPc = "unstarted"
    /\ loopHead(0)
    /\ UNCHANGED <<aVariant, aMaxAttempts, aIntervalMs, aQueries, aWaits, aClock, aDue,
                   aSawAccepted>>

\* part_008: const grpcClient = await getGrpcClient(); inside the try.
AcceptGetClient ==
    /\ UNCHANGED notAccept
    /\ aPc = "getClient"
    /\ \E ok \in BOOLEAN :
          IF ok
          THEN aPc' = "query" /\ UNCHANGED <<aAttempt, aWaits, aDue>>
          ELSE waitBeforeNext(aAttempt)
    /\ UNCHANGED <<aVariant, aMaxAttempts, aIntervalMs, aQueries, aClock, aSawAccepted>>

\* accepted = await grpcClient.transactionAccepted(txId) settles.
AcceptQueryReturn ==
    /\ UNCHANGED notAccept
    /\ aPc = "query"
    /\ aQueries' = aQueries + 1
    /\ \E r \in CheckResults :
          IF r = "true"
          THEN /\ aPc' = "returned_true"
               /\ aSawAccepted' = TRUE
               /\ UNCHANGED <<aAttempt, aWaits, aDue>>
          ELSE /\ waitBeforeNext(aAttempt)
               /\ UNCHANGED aSawAccepted
    /\ UNCHANGED <<aVariant, aMaxAttempts, aIntervalMs, aClock>>

\* Time passes while the function awaits its timer.
AcceptTick ==
    /\ UNCHANGED notAccept
    /\ aPc = "wait"
    /\ aClock < aDue
    /\ aClock' = aClock + 1
    /\ UNCHANGED <<aVariant, aMaxAttempts, aIntervalMs, aAttempt, aPc, aQueries, aWaits,
                   aDue, aSawAccepted>>

\* The timer fires: attempt++ and the loop test.
AcceptWaitDone ==
    /\ UNCHANGED notAccept
    /\ aPc = "wait"
    /\ aClock >= aDue
    /\ loopHead(aAttempt + 1)
    /\ UNCHANGED <<aVariant, aMaxAttempts, aIntervalMs, aQueries, aWaits, aClock, aDue,
                   aSawAccepted>>

NextAccept ==
    \/ AcceptStart
    \/ AcceptGetClient
    \/ AcceptQueryReturn
    \/ AcceptTick
    \/ AcceptWaitDone

InitAccept ==
    /\ NoPoll
    /\ GrpcLoaded
    /\ WalletAtRest
    /\ acceptUnstarted({"client", "getter"}, 0..MaxAttempts, 1..MaxIntervalMs)
    /\ NoSelection
    /\ NoCreate
    /\ NoBuild
    /\ NoMerge
    /\ managerCreated
    /\ NoList
    /\ NoValidation

SpecAccept == InitAccept /\ [][NextAccept]_vars

\* The event loop runs what is ready: awaited calls settle, timers fire.
FairAccept ==
    /\ SpecAccept
    /\ WF_vars(AcceptStart)
    /\ WF_vars(AcceptGetClient)
    /\ WF_vars(AcceptQueryReturn)
    /\ WF_vars(AcceptTick)
    /\ WF_vars(AcceptWaitDone)

(***************************************************************************)
(* utils/wasm-utils.ts: ensureWasmInitialized, getGrpcClient               *)
(***************************************************************************)
Endpoints == 1..NumEndpoints
Callers == 1..NumCallers

\* The construction promises not yet used, and the next GrpcClient object id.
FreePromises == {p \in 1..MaxConstructions : promiseState[p] = "unused"}
NextInstance == Cardinality(instances) + 1

\* ensureWasmInitialized() up to its await: the first caller starts wasm.default().
ensureWasmInitialized ==
    IF wasmInitialized \/ wasmInitializing # "null"
    THEN UNCHANGED <<wasmInitialized, wasmInitializing>>
    ELSE /\ wasmInitializing' = "pending"
         /\ UNCHANGED wasmInitialized

\* await ensureWasmInitialized() has settled, and how.
WasmAwaitDone == wasmInitialized \/ wasmInitializing \in {"fulfilled", "rejected"}
WasmAwaitFailed == ~wasmInitialized /\ wasmInitializing = "rejected"

\* getGrpcClient(endpoint), from the call to the promise it hands back.
getGrpcClient(c, e) ==
    /\ callers[c].pc = "idle"
    /\ IF grpcClients[e] # 0
       THEN \* const existing = grpcClients.get(endpoint); if (existing) return existing;
            /\ callers' = [callers EXCEPT ![c] =
                              [pc |-> "done", ep |-> e, awaits |-> 0, got |-> grpcClients[e]]]
            /\ UNCHANGED <<wasmInitialized, wasmInitializing, grpcClientPromises,
                           promiseState, promiseEp>>
       ELSE IF grpcClientPromises[e] # 0
       THEN \* const inProgress = grpcClientPromises.get(endpoint); if (inProgress) return inProgress;
            /\ callers' = [callers EXCEPT ![c] =
                              [pc |-> "awaiting", ep |-> e,
                               awaits |-> grpcClientPromises[e], got |-> 0]]
            /\ UNCHANGED <<wasmInitialized, wasmInitializing, grpcClientPromises,
                           promiseState, promiseEp>>
       ELSE \* the async body runs to `await ensureWasmInitialized()`, then the promise is cached
            /\ FreePromises # {}
            /\ LET p == CHOOSE q \in FreePromises : \A r \in FreePromises : q <= r IN
                 /\ ensureWasmInitialized
                 /\ promiseState' = [promiseState EXCEPT ![p] = "pending"]
                 /\ promiseEp' = [promiseEp EXCEPT ![p] = e]
                 /\ grpcClientPromises' = [grpcClientPromises EXCEPT ![e] = p]
                 /\ callers' = [callers EXCEPT ![c] =
                                   [pc |-> "awaiting", ep |-> e, awaits |-> p, got |-> 0]]

GetGrpcClient ==
    /\ UNCHANGED notGrpc
    /\ \E c \in Callers, e \in Endpoints : getGrpcClient(c, e)
    /\ UNCHANGED <<grpcClients, promiseVal, instances, providerRef, provPc, provFailed>>

\* wasm.default() settles: on success wasmInitialized = true; a failure leaves the
\* rejected promise in wasmInitializing.
WasmInitSettle ==
    /\ UNCHANGED notGrpc
    /\ wasmInitializing = "pending"
    /\ \E ok \in BOOLEAN :
          IF ok
          THEN wasmInitialized' = TRUE /\ wasmInitializing' = "fulfilled"
          ELSE wasmInitializing' = "rejected" /\ UNCHANGED wasmInitialized
    /\ UNCHANGED <<grpcClients, grpcClientPromises, promiseState, promiseEp, promiseVal,
                   instances, callers, providerRef, provPc, provFailed>>

\* The construction continues after its await: new wasm.GrpcClient(endpoint);
\* grpcClients.set(endpoint, client); grpcClientPromises.delete(endpoint).
\* A throw (wasm init failed, or the constructor threw) rejects the promise and
\* skips both map updates.
ConstructionResume ==
    /\ UNCHANGED notGrpc
    /\ \E p \in 1..MaxConstructions :
          /\ promiseState[p] = "pending"
          /\ WasmAwaitDone
          /\ \E ok \in BOOLEAN :
                IF ok /\ ~WasmAwaitFailed
                THEN /\ NextInstance <= MaxInstances
                     /\ instances' = instances \cup
                            {[id |-> NextInstance, endpoint |-> promiseEp[p], via |-> "cache"]}
                     /\ grpcClients' = [grpcClients EXCEPT ![promiseEp[p]] = NextInstance]
                     /\ grpcClientPromises' = [grpcClientPromises EXCEPT ![promiseEp[p]] = 0]
                     /\ promiseState' = [promiseState EXCEPT ![p] = "fulfilled"]
                     /\ promiseVal' = [promiseVal EXCEPT ![p] = NextInstance]
                ELSE /\ promiseState' = [promiseState EXCEPT ![p] = "rejected"]
                     /\ UNCHANGED <<instances, grpcClients, grpcClientPromises, promiseVal>>
    /\ UNCHANGED <<wasmInitialized, wasmInitializing, promiseEp, callers,
                   providerRef, provPc, provFailed>>

\* A caller's `await getGrpcClient(endpoint)` settles with the client or the error.
CallerResume ==
    /\ UNCHANGED notGrpc
    /\ \E c \in Callers :
          /\ callers[c].pc = "awaiting"
          /\ promiseState[callers[c].awaits] \in {"fulfilled", "rejected"}
          /\ callers' = [callers EXCEPT ![c] =
                [@ EXCEPT !.pc = "done",
                          !.got = IF promiseState[callers[c].awaits] = "fulfilled"
                                  THEN promiseVal[callers[c].awaits] ELSE -1]]
    /\ UNCHANGED <<wasmInitialized, wasmInitializing, grpcClients, grpcClientPromises,
                   promiseState, promiseEp, promiseVal, instances,
                   providerRef, provPc, provFailed>>

\* The caller's operation ends; it may call getGrpcClient again later (next attempt).
CallerReset ==
    /\ UNCHANGED notGrpc
    /\ \E c \in Callers :
          /\ callers[c].pc = "done"
          /\ callers' = [callers EXCEPT ![c] = [pc |-> "idle", ep |-> 0, awaits |-> 0, got |-> 0]]
    /\ UNCHANGED <<wasmInitialized, wasmInitializing, grpcClients, grpcClientPromises,
                   promiseState, promiseEp, promiseVal, instances,
                   providerRef, provPc, provFailed>>

\* The earlier WalletList (loadWallets, handleFundWallet, startPollingForNote):
\* await wasm.default(); const grpcClient = new wasm.GrpcClient(grpcEndpoint);
\* every call builds a client of its own and never consults the cache.
LoadWalletsDirect ==
    /\ UNCHANGED notGrpc
    /\ \E e \in Endpoints :
          /\ NextInstance <= MaxInstances
          /\ instances' = instances \cup
                 {[id |-> NextInstance, endpoint |-> e, via |-> "direct"]}
    /\ UNCHANGED <<wasmInitialized, wasmInitializing, grpcClients, grpcClientPromises,
                   promiseState, promiseEp, promiseVal, callers,
                   providerRef, provPc, provFailed>>

(***************************************************************************)
(* components/TransactionProposal.tsx: getConnectedProvider                *)
(***************************************************************************)

\* getConnectedProvider() up to `await provider.connect()`.
GetConnectedProvider ==
    /\ UNCHANGED notGrpc
    /\ provPc = "idle"
    /\ IF providerRef = "connected"
       THEN UNCHANGED <<providerRef, provPc, provFailed>>
       ELSE /\ providerRef' = "disconnected"   \* new NockchainProvider() if there is none
            /\ provPc' = "connecting"
            /\ provFailed' = FALSE
    /\ UNCHANGED <<wasmInitialized, wasmInitializing, grpcClients, grpcClientPromises,
                   promiseState, promiseEp, promiseVal, instances, callers>>

\* provider.connect() settles; the catch resets providerRef.current = null.
ProviderConnectReturn ==
    /\ UNCHANGED notGrpc
    /\ provPc = "connecting"
    /\ \E ok \in BOOLEAN :
          IF ok
          THEN providerRef' = "connected" /\ provFailed' = FALSE
          ELSE providerRef' = "null" /\ provFailed' = TRUE
    /\ provPc' = "idle"
    /\ UNCHANGED <<wasmInitialized, wasmInitializing, grpcClients, grpcClientPromises,
                   promiseState, promiseEp, promiseVal, instances, callers>>

\* The wallet extension drops the connection (provider.isConnected turns false).
ProviderDisconnect ==
    /\ UNCHANGED notGrpc
    /\ provPc = "idle"
    /\ providerRef = "connected"
    /\ providerRef' = "disconnected"
    /\ UNCHANGED <<provPc, provFailed>>
    /\ UNCHANGED <<wasmInitialized, wasmInitializing, grpcClients, grpcClientPromises,
                   promiseState, promiseEp, promiseVal, instances, callers>>

NextGrpc ==
    \/ GetGrpcClient
    \/ WasmInitSettle
    \/ ConstructionResume
    \/ CallerResume
    \/ CallerReset
    \/ LoadWalletsDirect
    \/ GetConnectedProvider
    \/ ProviderConnectReturn
    \/ ProviderDisconnect

InitGrpc ==
    /\ NoPoll
    /\ GrpcLoaded
    /\ WalletAtRest
    /\ NoAcceptance
    /\ NoSelection
    /\ NoCreate
    /\ NoBuild
    /\ NoMerge
    /\ managerCreated
    /\ NoList
    /\ NoValidation

SpecGrpc == InitGrpc /\ [][NextGrpc]_vars

(***************************************************************************)
(* utils/wasm-utils.ts: buildUnsignedMultisigSpendTx                       *)
(***************************************************************************)
Max(a, b) == IF a >= b THEN a ELSE b

RECURSIVE totalInputNicks(_)
totalInputNicks(ns) ==
    IF ns = <<>> THEN 0 ELSE Head(ns).assets + totalInputNicks(Tail(ns))

\* Math.floor(s.amountNock * 65536)
giftNicks(seed) == (seed.amountNock * NicksPerNock) \div AmountScale

RECURSIVE totalOutputNicks(_)
totalOutputNicks(ss) ==
    IF ss = <<>> THEN 0
    ELSE giftNicks(Head(ss)) + totalOutputNicks(Tail(ss))

validSeeds(ss) == SelectSeq(ss, LAMBDA s : s.amountNock > 0)

estimatedFeeNicks(ps, ns) ==
    Max(FeePerWord * (10 + Len(ps) * 15 + Len(ns) * 5), NicksPerNock * 20)

\* The loop over the selected notes: a note that carries a first name other
\* than the lock root recomputed from (threshold, participants).
lockRootMismatch(t, ps, ns) ==
    \E i \in 1..Len(ns) :
        /\ ns[i].nameFirst # MissingName
        /\ ns[i].nameFirst # LockRoot(t, ps)

\* The same function without the loop over the notes.
buildWithoutLockCheck(t, ps, ns, ss) ==
    IF Len(ns) = 0 THEN "NoNotes"
    ELSE IF Len(validSeeds(ss)) = 0 THEN "NoValidSeeds"
    ELSE IF Len(ps) = 0 THEN "NoParticipants"
    ELSE IF totalInputNicks(ns) < totalOutputNicks(validSeeds(ss)) + estimatedFeeNicks(ps, ns)
         THEN "InsufficientFunds"
    ELSE "built"

\* What the function throws, or "built" when it returns the unsigned transaction.
buildUnsignedMultisigSpendTx(t, ps, ns, ss) ==
    IF Len(ns) = 0 THEN "NoNotes"
    ELSE IF Len(validSeeds(ss)) = 0 THEN "NoValidSeeds"
    ELSE IF Len(ps) = 0 THEN "NoParticipants"
    ELSE IF totalInputNicks(ns) < totalOutputNicks(validSeeds(ss)) + estimatedFeeNicks(ps, ns)
         THEN "InsufficientFunds"
    ELSE IF lockRootMismatch(t, ps, ns) THEN "SpendConditionMismatch"
    ELSE "built"

(***************************************************************************)
(* utils/wasm-utils.ts: selectNotesForAmount                               *)
(***************************************************************************)
\* A sort that puts a note before the notes of the same amount.
insertNoteBeforeEqual(sorted, n) ==
    LET k == Cardinality({i \in 1..Len(sorted) : sorted[i].assets > n.assets})
    IN SubSeq(sorted, 1, k) \o <<n>> \o SubSeq(sorted, k + 1, Len(sorted))

\* One step of the sort: n goes behind every note that holds at least as
\* much (Array.prototype.sort is stable; the comparator is b.assets - a.assets).
insertNote(sorted, n) ==
    LET k == Cardinality({i \in 1..Len(sorted) : sorted[i].assets >= n.assets})
    IN SubSeq(sorted, 1, k) \o <<n>> \o SubSeq(sorted, k + 1, Len(sorted))

\* const sorted = [...notes].sort((a, b) => b.assets - a.assets)
RECURSIVE sortDescending(_)
sortDescending(notes) ==
    IF notes = <<>> THEN <<>>
    ELSE insertNote(sortDescending(SubSeq(notes, 1, Len(notes) - 1)), notes[Len(notes)])

\* for (const note of sorted) { selected.push(note); total += note.assets;
\*   if (total >= targetAmountNicks) return selected; }  return null;
RECURSIVE accumulate(_, _, _, _, _)
accumulate(sorted, i, selected, total, target) ==
    IF i > Len(sorted) THEN [null |-> TRUE, selected |-> <<>>]
    ELSE IF total + sorted[i].assets >= target
         THEN [null |-> FALSE, selected |-> Append(selected, sorted[i])]
    ELSE accumulate(sorted, i + 1, Append(selected, sorted[i]),
                    total + sorted[i].assets, target)

\* The loop without its early return: every note is taken.
selectAllNotes(notes, targetAmountNicks) ==
    IF totalInputNicks(notes) >= targetAmountNicks /\ notes # <<>>
    THEN [null |-> FALSE, selected |-> sortDescending(notes)]
    ELSE [null |-> TRUE, selected |-> <<>>]

selectNotesForAmount(notes, targetAmountNicks) ==
    accumulate(sortDescending(notes), 1, <<>>, 0, targetAmountNicks)

\* A caller selects from its notes.
SelectNotes ==
    /\ UNCHANGED notSelect
    /\ selPc = "ready"
    /\ selResult' = selectNotesForAmount(selNotes, selTarget)
    /\ selPc' = "returned"
    /\ UNCHANGED <<selNotes, selTarget>>

NextSelect == SelectNotes

InitSelect ==
    /\ NoPoll
    /\ GrpcLoaded
    /\ WalletAtRest
    /\ NoAcceptance
    /\ selectionReady(MaxNotes, MaxAssets, 0..MaxTarget)
    /\ NoCreate
    /\ NoBuild
    /\ NoMerge
    /\ managerCreated
    /\ NoList
    /\ NoValidation

SpecSelect == InitSelect /\ [][NextSelect]_vars

(***************************************************************************)
(* components/WalletList.tsx: the notes loadWallets hands to the form      *)
(***************************************************************************)
\* firstName = n.name?.first || wallet.lock_root_hash
walletNotes ==
    [i \in DOMAIN balanceNotes |->
        [assets |-> balanceNotes[i].assets,
         firstName |-> IF balanceNotes[i].first # MissingName
                       THEN balanceNotes[i].first ELSE lockRootHash]]

\* TransactionProposal: noteInputs, with nameFirst: n.firstName
noteInputs ==
    [i \in DOMAIN walletNotes |->
        [assets |-> walletNotes[i].assets, nameFirst |-> walletNotes[i].firstName]]

(***************************************************************************)
(* The coordination server (services/api.ts is its client)                 *)
(***************************************************************************)
\* A server that never moves a proposal to ready.
statusNeverReady(p, sigs) == "pending"

statusFor(p, sigs) == IF Len(sigs) >= p.threshold THEN "ready" ELSE "pending"

\* A table without the primary key: every submission adds a row.
appendSignature(sigs, frag) == Append(sigs, frag)

\* A table that keeps the last submission only.
keepLatestSignature(sigs, frag) == <<frag>>

\* proposal_signatures has one row per (proposal, signer): a second
\* submission of a signer replaces the first, in place.
upsertSignature(sigs, frag) ==
    IF \E i \in 1..Len(sigs) : sigs[i].signer = frag.signer
    THEN [i \in 1..Len(sigs) |-> IF sigs[i].signer = frag.signer THEN frag ELSE sigs[i]]
    ELSE Append(sigs, frag)

\* A server that drops proposer_signed_tx_json: the proposal starts unsigned.
createProposalUnsigned(proposerPkh, frag) ==
    [NoProposal EXCEPT !.status = "pending", !.threshold = threshold,
                       !.proposer_pkh = proposerPkh, !.tx_id = UnsignedId]

\* proposer_signed_tx_json is stored as the proposer's row of
\* proposal_signatures.
createProposal(proposerPkh, frag) ==
    LET p == [NoProposal EXCEPT !.threshold = threshold, !.tx_id = UnsignedId,
                                !.proposer_pkh = proposerPkh,
                                !.signatures = <<frag>>]
    IN [p EXCEPT !.status = statusFor(p, p.signatures)]

\* A server that asks nobody who they are.
anySigner(s) == TRUE

\* lock_participants: the pkhs that can sign for the wallet.
authorizedSigner(s) == \E i \in DOMAIN participants : participants[i] = s

signResponse(p, frag) ==
    IF authorizedSigner(frag.signer) THEN "signed" ELSE "UnauthorizedSigner"

signProposal(p, frag) ==
    LET sigs == upsertSignature(p.signatures, frag)
    IN IF authorizedSigner(frag.signer)
       THEN [p EXCEPT !.signatures = sigs, !.status = statusFor(p, sigs)]
       ELSE p

\* A server that marks whatever it is asked to mark.
markInAnyState(p) == TRUE

\* The server marks a proposal as broadcast only when it is ready.
canMarkBroadcast(p) == p.status = "ready"

\* finalTxId is optional: without it the proposal's own tx_id stays the record.
markProposalBroadcast(p, finalTxId) ==
    [p EXCEPT !.status = "broadcast",
              !.final_tx_id = IF finalTxId = NoId THEN p.tx_id ELSE finalTxId]

(***************************************************************************)
(* handleBroadcast: components/PendingProposals.tsx and its two other      *)
(* versions, up to the call of sendTransaction                             *)
(***************************************************************************)
\* What the calls into the wasm library and the wallet extension can do.
MergeOutcomes ==
    [mergeThrows : BOOLEAN, mergedId : {"first", "recalc"},
     recalc : {"ok", "null", "throws"}, valid : BOOLEAN]

Done(f, report) == [f EXCEPT !.pc = "done", !.report = report]

started(op, variant) == [IdleFlow EXCEPT !.op = op, !.variant = variant]

\* The guard without the comparison: every proposal is let through.
notEnoughSignaturesNever(p) == FALSE

\* if (proposal.signatures.length < proposal.threshold)
notEnoughSignatures(p) == Len(p.signatures) < p.threshold

idsDiffer(frags) ==
    \E i, j \in 1..Len(frags) : frags[i].id # frags[j].id

\* wasm.RawTx.mergeSignatures(fragments, threshold): the witnesses of the
\* first `threshold` fragments (fewer if there are fewer).
mergeSignatures(frags, t) ==
    {frags[i].signer : i \in 1..(IF Len(frags) < t THEN Len(frags) ELSE t)}

\* PendingProposals.tsx: merge the fragments as stored, send, poll
\* proposal.tx_id, mark without a final id.
broadcastV1(p, ext) ==
    LET f == started("broadcast", "v1")
        m == [f EXCEPT !.mergeCalled = TRUE]
    IN IF notEnoughSignatures(p) THEN Done(f, "NotEnoughSignatures")
       ELSE IF Len(p.signatures) < p.threshold
               \/ (idsDiffer(p.signatures) /\ ext.mergeThrows)
            THEN Done(m, "MergeFailed")
       ELSE [m EXCEPT !.pc = "send",
                      !.wit = mergeSignatures(p.signatures, p.threshold),
                      !.pollIds = <<p.tx_id>>,
                      !.markArg = NoId]

\* part_005: fragments normalised to the first signer's id, recalcId(),
\* validation, poll the recalculated id and then the fallback ids.
broadcastV2(p, ext) ==
    LET f == started("broadcast", "v2")
        m == [f EXCEPT !.mergeCalled = TRUE]
        baseId == p.signatures[1].id
        wit == mergeSignatures(p.signatures, p.threshold)
        correctTxId == RecalcId(wit)
        fallbackIds == SelectSeq(<<baseId, p.tx_id>>, LAMBDA id : id # correctTxId)
    IN IF notEnoughSignatures(p) THEN Done(f, "NotEnoughSignatures")
       ELSE IF Len(p.signatures) < p.threshold THEN Done(m, "MergeFailed")
       ELSE IF ext.recalc # "ok" THEN Done(m, "RecalcFailed")
       ELSE IF ~ext.valid THEN Done([m EXCEPT !.wit = wit], "ValidationFailed")
       ELSE [m EXCEPT !.pc = "send",
                      !.wit = wit,
                      !.validated = TRUE,
                      !.pollIds = <<correctTxId>> \o fallbackIds,
                      !.markArg = correctTxId]

\* part_006: fragments rebuilt on the unsigned transaction, recalcId() with
\* the merged transaction's own id as the fallback, validation, one poll.
broadcastV3(p, ext) ==
    LET f == started("broadcast", "v3")
        m == [f EXCEPT !.mergeCalled = TRUE]
        wit == mergeSignatures(p.signatures, p.threshold)
        mergedId == IF ext.mergedId = "first" THEN p.tx_id ELSE RecalcId(wit)
        finalTxId == IF ext.recalc = "ok" THEN RecalcId(wit) ELSE mergedId
    IN IF notEnoughSignatures(p) THEN Done(f, "NotEnoughSignatures")
       ELSE IF Len(p.signatures) < p.threshold THEN Done(m, "MergeFailed")
       ELSE IF ~ext.valid THEN Done([m EXCEPT !.wit = wit], "ValidationFailed")
       ELSE [m EXCEPT !.pc = "send",
                      !.wit = wit,
                      !.validated = TRUE,
                      !.pollIds = <<finalTxId>>,
                      !.markArg = finalTxId]

handleBroadcast(v, p, ext) ==
    IF v = "v1" THEN broadcastV1(p, ext)
    ELSE IF v = "v2" THEN broadcastV2(p, ext)
    ELSE broadcastV3(p, ext)

\* A client presses Broadcast on a proposal of the list it loaded earlier
\* (the list is not refreshed when another client acts): getProposal and
\* everything up to the send.
BroadcastLoad(c) ==
    /\ UNCHANGED notCoord
    /\ flow[c].op = "idle"
    /\ proposal.status \in {"pending", "ready", "broadcast"}
    /\ \E v \in {"v1", "v2", "v3"}, ext \in MergeOutcomes :
          flow' = [flow EXCEPT ![c] = handleBroadcast(v, proposal, ext)]
    /\ UNCHANGED <<threshold, participants, lockRootHash, balanceNotes, seeds,
                   proposal, history, mempool>>

(***************************************************************************)
(* handleSign, handleBuildTransaction, handleFundWallet up to the send     *)
(***************************************************************************)
\* The signers whose wallet extension recomputes the id after signing; the
\* others return the transaction under the id it was given with.
RecomputingSigners == {2}

\* What provider.signRawTx returns: the signer's witness, under the id the
\* extension reports.
signRawTx(s) ==
    [signer |-> s, id |-> IF s \in RecomputingSigners THEN RecalcId({s}) ELSE UnsignedId]

\* The Sign button is offered to a signer who has not signed yet.
hasAlreadySigned(p, s) == \E i \in 1..Len(p.signatures) : p.signatures[i].signer = s

\* PendingProposals.handleSign: getProposal, signRawTx, signProposal.
HandleSign(s) ==
    /\ UNCHANGED notCoord
    /\ proposal.status \in {"pending", "ready"}
    /\ ~hasAlreadySigned(proposal, s)
    /\ proposal' = signProposal(proposal, signRawTx(s))
    /\ UNCHANGED <<threshold, participants, lockRootHash, balanceNotes, seeds,
                   history, mempool, flow>>

\* The handler without the branch on threshold === 1: every spend is proposed.
buildTransactionAlwaysPropose(c, frag, valid) ==
    LET f == started("build", "propose")
        built == buildUnsignedMultisigSpendTx(threshold, participants, noteInputs, seeds)
    IN IF \A i \in 1..Len(participants) : participants[i] # c
       THEN Done(f, "NotParticipant")
       ELSE IF built # "built" THEN Done(f, built)
       ELSE [f EXCEPT !.signed = TRUE, !.frag = frag, !.pc = "propose"]

\* TransactionProposal.handleBuildTransaction from the build to the branch
\* on threshold === 1.
buildTransaction(c, frag, valid) ==
    LET f == started("build", "propose")
        built == buildUnsignedMultisigSpendTx(threshold, participants, noteInputs, seeds)
        g == [f EXCEPT !.signed = TRUE, !.frag = frag]
    IN IF \A i \in 1..Len(participants) : participants[i] # c
       THEN Done(f, "NotParticipant")
       ELSE IF built # "built" THEN Done(f, built)
       ELSE IF threshold = 1
            THEN IF ~valid
                 THEN Done([g EXCEPT !.variant = "direct"], "ValidationFailed")
                 ELSE [g EXCEPT !.variant = "direct",
                                !.pc = "send",
                                !.wit = {frag.signer},
                                !.validated = TRUE,
                                !.pollIds = <<frag.id, UnsignedId>>,
                                !.markArg = frag.id]
            ELSE [g EXCEPT !.pc = "propose"]

HandleBuildTransaction(c) ==
    /\ UNCHANGED notCoord
    /\ flow[c].op = "idle"
    /\ proposal.status = "none"
    /\ \E valid \in BOOLEAN :
          flow' = [flow EXCEPT ![c] = buildTransaction(c, signRawTx(c), valid)]
    /\ UNCHANGED <<threshold, participants, lockRootHash, balanceNotes, seeds,
                   proposal, history, mempool>>

\* apiClient.createProposal: tx_id is unique, a second proposal of the same
\* transaction is refused.
CreateProposal(c) ==
    /\ UNCHANGED notCoord
    /\ flow[c].pc = "propose"
    /\ IF proposal.status = "none"
       THEN /\ proposal' = createProposal(c, flow[c].frag)
            /\ flow' = [flow EXCEPT ![c] = Done(@, "Proposed")]
       ELSE /\ flow' = [flow EXCEPT ![c] = Done(@, "ProposeFailed")]
            /\ UNCHANGED proposal
    /\ UNCHANGED <<threshold, participants, lockRootHash, balanceNotes, seeds,
                   history, mempool>>

\* WalletList.handleFundWallet up to sendTransaction: the user's own notes,
\* the funding transaction, the signature; no validation.
fundWallet(c, userNotes) ==
    LET f == started("fund", "fund")
    IN IF userNotes # "ok" THEN Done(f, userNotes)
       ELSE [f EXCEPT !.pc = "send",
                      !.signed = TRUE,
                      !.wit = {c},
                      !.pollIds = <<TxId("fund", {})>>]

HandleFundWallet(c) ==
    /\ UNCHANGED notCoord
    /\ flow[c].op = "idle"
    /\ \E userNotes \in {"NoNotes", "InsufficientFunds", "ok"} :
          flow' = [flow EXCEPT ![c] = fundWallet(c, userNotes)]
    /\ UNCHANGED <<threshold, participants, lockRootHash, balanceNotes, seeds,
                   proposal, history, mempool>>

(***************************************************************************)
(* sendTransaction, checkTransactionAcceptance and what follows them       *)
(***************************************************************************)
\* The id the node computes for what a flow sends: from its content, the
\* witnesses included.
CanonicalId(f) == TxId(IF f.op = "fund" THEN "fund" ELSE "spend", f.wit)

\* grpcClient.transactionAccepted(id) can answer true once the node was sent
\* the transaction the id belongs to.
nodeAccepted(id) == id.kind \in mempool

\* sendTransaction with its throw swallowed: the handler goes on to the poll.
FlowSendIgnoringFailure(c) ==
    /\ UNCHANGED notCoord
    /\ flow[c].pc = "send"
    /\ \E ok \in BOOLEAN :
          /\ mempool' = IF ok THEN mempool \cup {CanonicalId(flow[c]).kind} ELSE mempool
          /\ flow' = [flow EXCEPT ![c].pc = "poll", ![c].sent = TRUE]
    /\ UNCHANGED <<threshold, participants, lockRootHash, balanceNotes, seeds,
                   proposal, history>>

\* await grpcClient.sendTransaction(tx): the call is made; it may throw.
FlowSend(c) ==
    /\ UNCHANGED notCoord
    /\ flow[c].pc = "send"
    /\ \E ok \in BOOLEAN :
          IF ok
          THEN /\ mempool' = mempool \cup {CanonicalId(flow[c]).kind}
               /\ flow' = [flow EXCEPT ![c].pc = "poll", ![c].sent = TRUE]
          ELSE /\ flow' = [flow EXCEPT ![c] = Done([@ EXCEPT !.sent = TRUE], "SendFailed")]
               /\ UNCHANGED mempool
    /\ UNCHANGED <<threshold, participants, lockRootHash, balanceNotes, seeds,
                   proposal, history>>

\* After the polls: hit is whether one of them returned, the last throwing
\* otherwise. PendingProposals.tsx lets the throw reach its catch.
afterPollV1(g, hit) ==
    IF hit THEN [g EXCEPT !.pc = "mark"] ELSE Done(g, "NotAccepted")

\* part_005 warns and goes on to mark the proposal.
afterPollV2(g, hit) == [g EXCEPT !.pc = "mark"]

\* part_006 warns and goes on to mark the proposal.
afterPollV3(g, hit) == [g EXCEPT !.pc = "mark"]

\* TransactionProposal.tsx throws 'Transaction was not accepted...'.
afterPollDirect(g, hit) ==
    IF hit THEN [g EXCEPT !.pc = "mark"] ELSE Done(g, "NotAccepted")

\* WalletList.tsx lets the throw reach its catch; else it starts the note poll.
afterPollFund(g, hit) ==
    IF hit THEN Done(g, "Funded") ELSE Done(g, "NotAccepted")

afterPoll(g, hit) ==
    IF g.variant = "v1" THEN afterPollV1(g, hit)
    ELSE IF g.variant = "v2" THEN afterPollV2(g, hit)
    ELSE IF g.variant = "v3" THEN afterPollV3(g, hit)
    ELSE IF g.variant = "direct" THEN afterPollDirect(g, hit)
    ELSE afterPollFund(g, hit)

\* checkTransactionAcceptance on the flow's ids in turn: the first n ids are
\* polled, the n-th is accepted (hit) or every poll ran out of attempts.
FlowPoll(c) ==
    /\ UNCHANGED notCoord
    /\ flow[c].pc = "poll"
    /\ \E n \in 1..Len(flow[c].pollIds), hit \in BOOLEAN :
          /\ hit => nodeAccepted(flow[c].pollIds[n])
          /\ ~hit => n = Len(flow[c].pollIds)
          /\ flow' = [flow EXCEPT ![c] =
                afterPoll([flow[c] EXCEPT
                              !.polled = {flow[c].pollIds[i] : i \in 1..n},
                              !.timedOut = ~hit], hit)]
    /\ UNCHANGED <<threshold, participants, lockRootHash, balanceNotes, seeds,
                   proposal, history, mempool>>

\* apiClient.markProposalBroadcast / apiClient.directSpend, and the message.
FlowMark(c) ==
    /\ UNCHANGED notCoord
    /\ flow[c].pc = "mark"
    /\ IF flow[c].op = "broadcast"
       THEN IF canMarkBroadcast(proposal)
            THEN /\ proposal' = markProposalBroadcast(proposal, flow[c].markArg)
                 /\ flow' = [flow EXCEPT ![c] = Done(@, "Broadcast")]
                 /\ UNCHANGED history
            ELSE /\ flow' = [flow EXCEPT ![c] = Done(@, "MarkFailed")]
                 /\ UNCHANGED <<proposal, history>>
       ELSE /\ history' = history \cup {flow[c].markArg}
            /\ flow' = [flow EXCEPT ![c] = Done(@, "Sent")]
            /\ UNCHANGED proposal
    /\ UNCHANGED <<threshold, participants, lockRootHash, balanceNotes, seeds,
                   mempool>>

\* The handler has returned; the client is free for the next one.
FlowReset(c) ==
    /\ UNCHANGED notCoord
    /\ flow[c].pc = "done"
    /\ flow' = [flow EXCEPT ![c] = IdleFlow]
    /\ UNCHANGED <<threshold, participants, lockRootHash, balanceNotes, seeds,
                   proposal, history, mempool>>

Next ==
    \/ \E c \in Clients : HandleBuildTransaction(c)
    \/ \E c \in Clients : CreateProposal(c)
    \/ \E s \in Signers : HandleSign(s)
    \/ \E c \in Clients : BroadcastLoad(c)
    \/ \E c \in 1..NumFunders : HandleFundWallet(c)
    \/ \E c \in Clients : FlowSend(c)
    \/ \E c \in Clients : FlowPoll(c)
    \/ \E c \in Clients : FlowMark(c)
    \/ \E c \in Clients : FlowReset(c)

Init ==
    /\ NoPoll
    /\ GrpcLoaded
    /\ walletLoaded(1..MaxThreshold, {CreatedParticipants, SwappedParticipants},
                    NoteAssets, {"recorded", "missing"})
    /\ submitted = {}
    /\ response = "none"
    /\ NoAcceptance
    /\ NoSelection
    /\ NoCreate
    /\ NoBuild
    /\ NoMerge
    /\ managerCreated
    /\ NoList
    /\ NoValidation

Spec == Init /\ [][Next]_vars

(***************************************************************************)
(* The proposal endpoints of the coordination server, request by request   *)
(***************************************************************************)
\* A pkh that is not among the wallet's participants.
Outsider == NumSigners + 1

\* What a signer can submit: its witness under the transaction's id or
\* under the id its extension recomputed.
signedFragments(s) ==
    {[signer |-> s, id |-> UnsignedId], [signer |-> s, id |-> RecalcId({s})]}

\* POST /api/proposals with proposer_signed_tx_json.
PostProposal ==
    /\ UNCHANGED notServer
    /\ proposal.status = "none"
    /\ \E s \in Signers : \E frag \in signedFragments(s) :
          /\ proposal' = createProposal(s, frag)
          /\ submitted' = submitted \cup {s}
    /\ response' = "created"
    /\ UNCHANGED <<threshold, participants, lockRootHash, balanceNotes, seeds,
                   history, mempool, flow>>

\* POST /api/proposals/:id/sign {signer_pkh, signed_tx_json}.
PostSign(s, frag) ==
    /\ UNCHANGED notServer
    /\ proposal.status \in {"pending", "ready"}
    /\ proposal' = signProposal(proposal, frag)
    /\ submitted' = submitted \cup {s}
    /\ response' = signResponse(proposal, frag)
    /\ UNCHANGED <<threshold, participants, lockRootHash, balanceNotes, seeds,
                   history, mempool, flow>>

\* POST /api/proposals/:id/broadcast {_broadcaster_pkh, final_tx_id}.
PostBroadcast ==
    /\ UNCHANGED notServer
    /\ proposal.status # "none"
    /\ \E finalTxId \in {NoId, RecalcId(mergeSignatures(proposal.signatures,
                                                         proposal.threshold))} :
          IF canMarkBroadcast(proposal)
          THEN /\ proposal' = markProposalBroadcast(proposal, finalTxId)
               /\ response' = "broadcast"
          ELSE /\ response' = "NotReady"
               /\ UNCHANGED proposal
    /\ UNCHANGED submitted
    /\ UNCHANGED <<threshold, participants, lockRootHash, balanceNotes, seeds,
                   history, mempool, flow>>

NextServer ==
    \/ PostProposal
    \/ \E s \in Signers \cup {Outsider} : \E frag \in signedFragments(s) : PostSign(s, frag)
    \/ PostBroadcast

InitServer ==
    /\ NoPoll
    /\ GrpcLoaded
    /\ walletLoaded(1..MaxThreshold, {CreatedParticipants}, {4000000}, {"recorded"})
    /\ submitted = {}
    /\ response = "none"
    /\ NoAcceptance
    /\ NoSelection
    /\ NoCreate
    /\ NoBuild
    /\ NoMerge
    /\ managerCreated
    /\ NoList
    /\ NoValidation

SpecServer == InitServer /\ [][NextServer]_vars

(***************************************************************************)
(* utils/wasm-utils.ts: the transaction buildUnsignedMultisigSpendTx       *)
(* assembles once its checks have passed                                   *)
(***************************************************************************)
Min(a, b) == IF a <= b THEN a ELSE b

\* note.hash().value
noteHash(n) == [note |-> n.id]

RECURSIVE sumGifts(_)
sumGifts(seedList) ==
    IF seedList = <<>> THEN 0 ELSE Head(seedList).gift + sumGifts(Tail(seedList))

\* A loop that adds the seeds to every spend.
seedsOnEverySpend(i, vs, parentHashValue) ==
    [k \in DOMAIN vs |-> [gift |-> giftNicks(vs[k]), parentHash |-> parentHashValue]]

\* if (i === 0 && parentHashValue): every valid seed becomes a wasm.Seed of
\* the first spend, with the first note's hash as parent; the other spends
\* get none.
seedsOfSpend(i, vs, parentHashValue) ==
    IF i = 1
    THEN [k \in DOMAIN vs |-> [gift |-> giftNicks(vs[k]), parentHash |-> parentHashValue]]
    ELSE <<>>

\* spendBuilder.computeRefund(false): what the note holds beyond its seeds
\* and its fee goes back to the wallet's lock; nothing when the seeds take more.
computeRefund(sp) ==
    [sp EXCEPT !.refund = IF sp.assets > sumGifts(sp.seeds) + sp.fee
                          THEN sp.assets - sumGifts(sp.seeds) - sp.fee ELSE 0]

\* spendBuilder.isBalanced()
isBalanced(sp) == sp.assets = sumGifts(sp.seeds) + sp.refund + sp.fee

\* The body of the loop over selectedNotes up to computeRefund.
spendBuilders(ns, vs) ==
    [i \in DOMAIN ns |->
        computeRefund([note |-> ns[i].id, assets |-> ns[i].assets,
                       seeds |-> seedsOfSpend(i, vs, noteHash(ns[1])),
                       refund |-> 0, fee |-> 0])]

\* A loop without the test of isBalanced.
unbalancedSpendIgnored(sbs) == FALSE

\* if (!spendBuilder.isBalanced()) throw
unbalancedSpend(sbs) == \E i \in DOMAIN sbs : ~isBalanced(sbs[i])

\* builder.calcFee(): the fee per word times the size of the transaction.
calcFee(words) == FeePerWord * words

\* builder.setFeeAndBalanceRefund(fee, true, false): the fee is taken out of
\* the refunds, spend by spend, until it is covered.
RECURSIVE setFeeAndBalanceRefund(_, _, _)
setFeeAndBalanceRefund(sbs, i, feeLeft) ==
    IF i > Len(sbs) THEN sbs
    ELSE LET take == Min(sbs[i].refund, feeLeft)
         IN setFeeAndBalanceRefund(
                [sbs EXCEPT ![i].fee = @ + take, ![i].refund = @ - take],
                i + 1, feeLeft - take)

\* builder.curFee()
RECURSIVE curFee(_)
curFee(sbs) == IF sbs = <<>> THEN 0 ELSE Head(sbs).fee + curFee(Tail(sbs))

\* The calls the function makes on the way to a transaction, in order; n is
\* the number of notes whose spend was completed.
RECURSIVE spendSteps(_)
spendSteps(n) ==
    IF n = 0 THEN <<>>
    ELSE spendSteps(n - 1) \o <<"SpendBuilder", "computeRefund", "isBalanced", "spend">>

feeSteps == <<"calcFee", "availableForFeeAndChange", "setFeeAndBalanceRefund", "curFee", "build">>

thrown(outcome, steps) == [NoTx EXCEPT !.outcome = outcome, !.steps = steps]

\* buildUnsignedMultisigSpendTx as a whole: the checks, the spends, the fee,
\* the build. `words` is what the library measures.
unsignedTx(t, ps, ns, ss, words) ==
    LET checks == buildUnsignedMultisigSpendTx(t, ps, ns, ss)
        vs == validSeeds(ss)
        sbs == spendBuilders(ns, vs)
        exactFeeNicks == calcFee(words)
        availableForFeeAndChange == totalInputNicks(ns) - totalOutputNicks(vs)
        balanced == setFeeAndBalanceRefund(sbs, 1, exactFeeNicks)
    IN IF checks # "built" THEN thrown(checks, <<"estimatedFeeNicks">>)
       ELSE IF unbalancedSpend(sbs)
            THEN thrown("NotBalanced", <<"estimatedFeeNicks", "SpendBuilder",
                                         "computeRefund", "isBalanced">>)
       ELSE IF exactFeeNicks > availableForFeeAndChange
            THEN thrown("InsufficientFundsForFee",
                        <<"estimatedFeeNicks">> \o spendSteps(Len(ns))
                           \o <<"calcFee", "availableForFeeAndChange">>)
       ELSE [outcome |-> "built", spends |-> balanced,
             calcFee |-> exactFeeNicks, curFee |-> curFee(balanced),
             steps |-> <<"estimatedFeeNicks">> \o spendSteps(Len(ns)) \o feeSteps]

\* A handler that goes on to the signature whatever the build did.
signsAlways(tx) == TRUE

\* handleBuildTransaction: signRawTx is reached when the build returned.
signsBuilt(tx) == tx.outcome = "built"

\* handleBuildTransaction from buildUnsignedMultisigSpendTx to signRawTx.
BuildAndSign ==
    /\ UNCHANGED notBuild
    /\ bPc = "ready"
    /\ LET ns == [i \in DOMAIN bNotes |->
                    [id |-> bNotes[i].id, assets |-> bNotes[i].assets,
                     nameFirst |-> lockRootHash]]
           tx == unsignedTx(threshold, participants, ns, bSeeds, bWords)
       IN /\ bResult' = tx
          /\ bSigned' = signsBuilt(tx)
    /\ bPc' = "returned"
    /\ UNCHANGED <<bNotes, bSeeds, bWords>>

NextBuild == BuildAndSign

\* What a note of the wallet holds, what a seed asks for (in 1/12288 NOCK:
\* nothing, a fraction of a nick, 30000 nicks, 1 NOCK, 2 NOCK), and the
\* sizes the library can measure.
BuildAssets == {100000, 2200000, 4000000}
SeedAmounts == {0, 1, 5625, AmountScale, 2 * AmountScale}
WordCounts == {2, 50, 70}

Lists(maxLen, values) == UNION {[1..n -> values] : n \in 0..maxLen}

InitBuild ==
    /\ NoPoll
    /\ GrpcLoaded
    /\ walletLoaded({MaxThreshold}, {CreatedParticipants}, {4000000}, {"recorded"})
    /\ submitted = {}
    /\ response = "none"
    /\ NoAcceptance
    /\ NoSelection
    /\ NoCreate
    /\ buildReady(Lists(MaxSelected, BuildAssets), Lists(MaxSeeds, SeedAmounts), WordCounts)
    /\ NoMerge
    /\ managerCreated
    /\ NoList
    /\ NoValidation

SpecBuild == InitBuild /\ [][NextBuild]_vars

(***************************************************************************)
(* handleBroadcast (part_005, part_006) on fragments of any content        *)
(***************************************************************************)
\* part_005: every fragment's id is set to the first fragment's; part_006:
\* every fragment is the unsigned transaction with the fragment's spends and
\* the unsigned transaction's id. The spends, seeds included, stay as signed.
normalizeIds(v, frags) ==
    [i \in DOMAIN frags |->
        [frags[i] EXCEPT !.id = IF v = "v2" THEN frags[1].id ELSE UnsignedId]]

seedsDiffer(frags) == \E i, j \in DOMAIN frags : frags[i].seeds # frags[j].seeds

\* The handler from the guard to sendTransaction. What the library does with
\* fragments that differ (ext.mergeThrows) and what validation finds
\* (ext.valid) are the library's to decide.
mergeAndSend(v, frags, t, ext) ==
    LET txs == normalizeIds(v, frags)
        wit == mergeSignatures(txs, t)
        merged == [NoMerged EXCEPT !.seeds = txs[1].seeds, !.wit = wit,
                                   !.id = RecalcId(wit)]
    IN IF Len(frags) < t
       THEN [NoMerged EXCEPT !.outcome = "NotEnoughSignatures"]
       ELSE IF (idsDiffer(txs) \/ seedsDiffer(txs)) /\ ext.mergeThrows
            THEN [NoMerged EXCEPT !.outcome = "MergeFailed"]
       ELSE IF ~ext.valid THEN [merged EXCEPT !.outcome = "ValidationFailed"]
       ELSE [merged EXCEPT !.outcome = "sent", !.sent = TRUE]

MergeAndSend(v, ext) ==
    /\ UNCHANGED notMerge
    /\ mPc = "loaded"
    /\ mResult' = mergeAndSend(v, mFrags, mThreshold, ext)
    /\ mPc' = "returned"
    /\ UNCHANGED <<mFrags, mThreshold>>

NextMerge == \E v \in {"v2", "v3"}, ext \in MergeOutcomes : MergeAndSend(v, ext)

InitMerge ==
    /\ NoPoll
    /\ GrpcLoaded
    /\ WalletAtRest
    /\ NoAcceptance
    /\ NoSelection
    /\ NoCreate
    /\ NoBuild
    /\ fragmentsLoaded(1..NumSigners, {1, 2}, {MaxThreshold})
    /\ managerCreated
    /\ NoList
    /\ NoValidation

SpecMerge == InitMerge /\ [][NextMerge]_vars

(***************************************************************************)
(* components/WalletCreate.tsx: the form that creates a multisig wallet    *)
(***************************************************************************)
\* String.prototype.trim on a field's content.
trim(p) == IF p = Spaces THEN Blank ELSE p

\* signerPkhs.filter(pkh => pkh.trim() !== ''): the fields are kept as typed.
validPkhs(ps) == SelectSeq(ps, LAMBDA p : trim(p) # Blank)

\* A check of the lower end only.
thresholdBelowOne(t, n) == t < 1

\* threshold < 1 || threshold > validPkhs.length
thresholdOutOfRange(t, n) == t < 1 \/ t > n

\* The checks of handleSubmit in the order the handler makes them; "null"
\* when it goes on to computeLockRootHash.
submitError(t, ps, pkh) ==
    IF Len(validPkhs(ps)) = 0 THEN "At least one signer PKH is required"
    ELSE IF thresholdOutOfRange(t, Len(validPkhs(ps)))
         THEN "Threshold must be between 1 and n"
    ELSE IF pkh = Blank THEN "Wallet not connected"
    ELSE "null"

\* A derivation that puts the participants in ascending order first.
RECURSIVE ascending(_)
ascending(ps) ==
    IF ps = <<>> THEN <<>>
    ELSE LET rest == ascending(Tail(ps))
             k == Cardinality({i \in 1..Len(rest) : rest[i] < Head(ps)})
         IN SubSeq(rest, 1, k) \o <<Head(ps)>> \o SubSeq(rest, k + 1, Len(rest))

computeLockRootHashSorted(t, ps) == LockRoot(t, ascending(ps))

\* computeLockRootHash(threshold, participants)
computeLockRootHash(t, ps) == LockRoot(t, ps)

\* useEffect: if (threshold > signerPkhs.length) setThreshold(signerPkhs.length)
adjustThreshold(t, ps) ==
    IF wcVariant = "dropdown" /\ t > Len(ps) THEN Len(ps) ELSE t

\* The number field: setThreshold(parseInt(e.target.value) || 1); the
\* dropdown offers 1..signerPkhs.length.
SetThreshold(v) ==
    /\ UNCHANGED notCreate
    /\ wcPc = "form"
    /\ IF wcVariant = "dropdown"
       THEN v \in 1..Len(wcSignerPkhs) /\ wcThreshold' = v
       ELSE wcThreshold' = IF v = 0 THEN 1 ELSE v
    /\ UNCHANGED <<wcVariant, wcPkh, wcSignerPkhs, wcError, wcLockRootHash,
                   wcRequest, wcPc>>

addSigner ==
    /\ UNCHANGED notCreate
    /\ wcPc = "form"
    /\ Len(wcSignerPkhs) < MaxSignerRows
    /\ wcSignerPkhs' = Append(wcSignerPkhs, Blank)
    /\ UNCHANGED <<wcVariant, wcPkh, wcThreshold, wcError, wcLockRootHash,
                   wcRequest, wcPc>>

\* The first field is disabled while it shows the connected wallet's pkh.
updateSigner(index, value) ==
    /\ UNCHANGED notCreate
    /\ wcPc = "form"
    /\ index \in 1..Len(wcSignerPkhs)
    /\ ~(index = 1 /\ wcPkh # Blank /\ wcSignerPkhs[1] = wcPkh)
    /\ wcSignerPkhs' = [wcSignerPkhs EXCEPT ![index] = value]
    /\ UNCHANGED <<wcVariant, wcPkh, wcThreshold, wcError, wcLockRootHash,
                   wcRequest, wcPc>>

\* The Remove button is shown while there is more than one row, and not on
\* the row of the connected wallet.
removeSigner(index) ==
    /\ UNCHANGED notCreate
    /\ wcPc = "form"
    /\ Len(wcSignerPkhs) > 1
    /\ index \in 1..Len(wcSignerPkhs)
    /\ ~(index = 1 /\ wcPkh # Blank /\ wcSignerPkhs[1] = wcPkh)
    /\ LET rest == [i \in 1..(Len(wcSignerPkhs) - 1) |->
                       IF i < index THEN wcSignerPkhs[i] ELSE wcSignerPkhs[i + 1]]
       IN /\ wcSignerPkhs' = rest
          /\ wcThreshold' = adjustThreshold(wcThreshold, rest)
    /\ UNCHANGED <<wcVariant, wcPkh, wcError, wcLockRootHash, wcRequest, wcPc>>

\* useEffect on [pkh]: the first row follows the connected wallet.
WalletChanges(p) ==
    /\ UNCHANGED notCreate
    /\ wcPc = "form"
    /\ p # wcPkh
    /\ wcPkh' = p
    /\ wcSignerPkhs' = [wcSignerPkhs EXCEPT ![1] = p]
    /\ UNCHANGED <<wcVariant, wcThreshold, wcError, wcLockRootHash, wcRequest, wcPc>>

\* handleSubmit: the checks, computeLockRootHash, apiClient.createMultisig,
\* navigate; whatever is thrown ends in setError.
HandleSubmit ==
    /\ UNCHANGED notCreate
    /\ wcPc = "form"
    /\ LET ps == validPkhs(wcSignerPkhs)
           err == submitError(wcThreshold, wcSignerPkhs, wcPkh)
           lock == computeLockRootHash(wcThreshold, ps)
       IN IF err # "null"
          THEN /\ wcError' = err
               /\ UNCHANGED <<wcLockRootHash, wcRequest, wcPc>>
          ELSE \E outcome \in {"created", "wasm threw", "request failed"} :
                  /\ wcLockRootHash' = IF outcome = "wasm threw" THEN wcLockRootHash ELSE lock
                  /\ wcRequest' = IF outcome = "wasm threw" THEN wcRequest
                                  ELSE [lock_root_hash |-> lock,
                                        threshold |-> wcThreshold,
                                        total_signers |-> Len(ps),
                                        participants |-> ps,
                                        created_by |-> wcPkh]
                  /\ wcError' = IF outcome = "created" THEN "null"
                                ELSE "Failed to create wallet"
                  /\ wcPc' = IF outcome = "created" THEN "navigated" ELSE "form"
    /\ UNCHANGED <<wcVariant, wcPkh, wcThreshold, wcSignerPkhs>>

NextCreate ==
    \/ \E v \in (0 - 1)..(MaxSignerRows + 1) : SetThreshold(v)
    \/ addSigner
    \/ \E index \in 1..MaxSignerRows : \E value \in TypedPkhs : updateSigner(index, value)
    \/ \E index \in 1..MaxSignerRows : removeSigner(index)
    \/ \E p \in {Blank, 1} : WalletChanges(p)
    \/ HandleSubmit

InitCreate ==
    /\ NoPoll
    /\ GrpcLoaded
    /\ WalletAtRest
    /\ NoAcceptance
    /\ NoSelection
    /\ formMounted({"input", "dropdown"}, {Blank, 1})
    /\ NoBuild
    /\ NoMerge
    /\ managerCreated
    /\ NoList
    /\ NoValidation

SpecCreate == InitCreate /\ [][NextCreate]_vars

(***************************************************************************)
(* WasmResourceManager (utils/wasm-utils.ts, utils/wasm-cleanup.ts) and    *)
(* the functions of utils/wasm-utils.ts that allocate WASM objects.  A     *)
(* WASM object is a number; the objects 1 .. hNext - 1 have been allocated.*)
(* Objects whose ownership moves into another object on construction (the  *)
(* Pkh handed to LockPrimitive.newPkh, the leaves handed to a              *)
(* SpendCondition by the multisig builder) are not counted.                *)
(***************************************************************************)
\* obj.free() was invoked on every member of objs.
freeEach(calls, objs) == [h \in DOMAIN calls |-> IF h \in objs THEN calls[h] + 1 ELSE calls[h]]

\* register(obj): this.objects.push(obj).
register(objects, obj) == Append(objects, obj)

\* registerAll(objects): objects.forEach(obj => this.objects.push(obj)).
registerAll(objects, objs) == objects \o objs

\* cleanup() with the loop running from index 0 upwards.
RECURSIVE cleanupForward(_, _)
cleanupForward(objects, freed) ==
    IF objects = <<>> THEN <<>>
    ELSE IF Head(objects) \in freed THEN cleanupForward(Tail(objects), freed)
    ELSE <<Head(objects)>> \o cleanupForward(Tail(objects), freed \cup {Head(objects)})

\* cleanup(): the loop runs from the last index down and invokes free() on
\* every entry that is not in freedObjects, adding it to freedObjects; the
\* value is the sequence of the free() calls.
RECURSIVE cleanupOrder(_, _)
cleanupOrder(objects, freed) ==
    IF objects = <<>> THEN <<>>
    ELSE LET obj == objects[Len(objects)]
             rest == SubSeq(objects, 1, Len(objects) - 1)
         IN  IF obj \in freed THEN cleanupOrder(rest, freed)
             ELSE <<obj>> \o cleanupOrder(rest, freed \cup {obj})

Range(seq) == {seq[i] : i \in DOMAIN seq}

\* The caller constructs a WASM object.
NewObject ==
    /\ UNCHANGED notWasm
    /\ hNext <= MaxHandles
    /\ Cardinality(hCaller) < MaxOwn
    /\ hNext' = hNext + 1
    /\ hCaller' = hCaller \cup {hNext}
    /\ rmLast' = [NoCall EXCEPT !.op = "new"]
    /\ UNCHANGED <<rmObjects, rmFreed, hFreeCalls, hRegistered>>

Register ==
    /\ UNCHANGED notWasm
    /\ Len(rmObjects) < MaxRegistered
    /\ \E obj \in hCaller :
          /\ rmObjects' = register(rmObjects, obj)
          /\ hRegistered' = hRegistered \cup {obj}
    /\ rmLast' = [NoCall EXCEPT !.op = "register"]
    /\ UNCHANGED <<rmFreed, hNext, hFreeCalls, hCaller>>

RegisterAll ==
    /\ UNCHANGED notWasm
    /\ Len(rmObjects) + 2 <= MaxRegistered
    /\ \E objs \in [1..2 -> hCaller] :
          /\ rmObjects' = registerAll(rmObjects, objs)
          /\ hRegistered' = hRegistered \cup Range(objs)
    /\ rmLast' = [NoCall EXCEPT !.op = "registerAll"]
    /\ UNCHANGED <<rmFreed, hNext, hFreeCalls, hCaller>>

\* cleanup(), also what useWasmCleanup runs when the component unmounts.
Cleanup ==
    /\ UNCHANGED notWasm
    /\ LET frees == cleanupOrder(rmObjects, rmFreed)
       IN  /\ hFreeCalls' = freeEach(hFreeCalls, Range(frees))
           /\ rmFreed' = rmFreed \cup Range(frees)
           /\ rmLast' = [op |-> "cleanup", acquired |-> {}, objects |-> rmObjects,
                         freedBefore |-> rmFreed, frees |-> frees]
    /\ rmObjects' = <<>>
    /\ UNCHANGED <<hNext, hRegistered, hCaller>>

\* computeLockRootHash(threshold, participants, cleanup?): the condition is
\* registered by buildMultisigSpendCondition when a manager is given; the
\* firstName digest is registered, or both are freed by hand.
ComputeLockRootHash ==
    /\ UNCHANGED notWasm
    /\ \E withCleanup \in BOOLEAN :
          LET spendCondition == hNext
              firstName == hNext + 1
          IN  /\ firstName <= MaxHandles
              /\ hNext' = hNext + 2
              /\ rmLast' = [NoCall EXCEPT !.op = "computeLockRootHash",
                                          !.acquired = {spendCondition, firstName}]
              /\ IF withCleanup
                    THEN /\ Len(rmObjects) + 2 <= MaxRegistered
                         /\ rmObjects' = register(register(rmObjects, spendCondition), firstName)
                         /\ hRegistered' = hRegistered \cup {spendCondition, firstName}
                         /\ UNCHANGED hFreeCalls
                    ELSE /\ hFreeCalls' = freeEach(hFreeCalls, {firstName, spendCondition})
                         /\ UNCHANGED <<rmObjects, hRegistered>>
    /\ UNCHANGED <<rmFreed, hCaller>>

\* discoverSpendConditionForNote(senderPKH, note, cleanup?): the PKH-only
\* condition is registered by buildSimplePkhSpendCondition when a manager is
\* given and freed by hand when it does not match; the coinbase condition and
\* its leaves are registered on a match and freed by hand otherwise; the
\* digests of the two firstName() calls are dropped.
DiscoverSpendConditionForNote ==
    /\ UNCHANGED notWasm
    /\ \E matches \in {"simple", "coinbase", "none"}, withCleanup \in BOOLEAN :
          LET simpleCondition == hNext
              simpleFirstName == hNext + 1
              pkhLeaf == hNext + 2
              timLeaf == hNext + 3
              coinbaseCondition == hNext + 4
              coinbaseFirstName == hNext + 5
              allocated == IF matches = "simple" THEN 2 ELSE 6
              registered ==
                  (IF withCleanup THEN <<simpleCondition>> ELSE <<>>)
                  \o (IF withCleanup /\ matches = "coinbase"
                         THEN <<pkhLeaf, timLeaf, coinbaseCondition>> ELSE <<>>)
              freedByHand ==
                  CASE matches = "simple" -> {}
                    [] matches = "coinbase" -> {simpleCondition}
                    [] matches = "none" -> {simpleCondition, coinbaseCondition, pkhLeaf, timLeaf}
          IN  /\ hNext + allocated - 1 <= MaxHandles
              /\ Len(rmObjects) + Len(registered) <= MaxRegistered
              /\ hNext' = hNext + allocated
              /\ rmObjects' = registerAll(rmObjects, registered)
              /\ hRegistered' = hRegistered \cup Range(registered)
              /\ hFreeCalls' = freeEach(hFreeCalls, freedByHand)
              /\ rmLast' = [NoCall EXCEPT
                    !.op = IF matches = "none" THEN "discover threw" ELSE "discover returned",
                    !.acquired = hNext..(hNext + allocated - 1)]
    /\ UNCHANGED <<rmFreed, hCaller>>

\* buildUnsignedMultisigSpendTx, the spend conditions it builds without a
\* manager: the verification condition and its digest are freed after the
\* loop over the notes, which throws on a note of another lock root; the
\* condition built for the log is freed, its hash() and firstName() digests
\* are dropped.
VerifySpendCondition ==
    /\ UNCHANGED notWasm
    /\ \E mismatch \in BOOLEAN :
          LET verifySpendCondition == hNext
              firstNameDigestVerify == hNext + 1
              discrepancyCondition == hNext + 2
              hashDigest == hNext + 3
              firstNameDigest == hNext + 4
              allocated == IF mismatch THEN 2 ELSE 5
          IN  /\ hNext + allocated - 1 <= MaxHandles
              /\ hNext' = hNext + allocated
              /\ hFreeCalls' = freeEach(hFreeCalls,
                    IF mismatch THEN {}
                    ELSE {firstNameDigestVerify, verifySpendCondition, discrepancyCondition})
              /\ rmLast' = [NoCall EXCEPT
                    !.op = IF mismatch THEN "build threw" ELSE "build returned",
                    !.acquired = hNext..(hNext + allocated - 1)]
    /\ UNCHANGED <<rmObjects, rmFreed, hRegistered, hCaller>>

NextWasm ==
    \/ NewObject
    \/ Register
    \/ RegisterAll
    \/ Cleanup
    \/ ComputeLockRootHash
    \/ DiscoverSpendConditionForNote
    \/ VerifySpendCondition

InitWasm ==
    /\ NoPoll
    /\ GrpcLoaded
    /\ WalletAtRest
    /\ NoAcceptance
    /\ NoSelection
    /\ NoCreate
    /\ NoBuild
    /\ NoMerge
    /\ managerCreated
    /\ NoList
    /\ NoValidation

SpecWasm == InitWasm /\ [][NextWasm]_vars

(***************************************************************************)
(* components/WalletList.tsx and its earlier version: handleFundWallet,    *)
(* startPollingForNote, stopPollingForNote and the unmount effect.  The    *)
(* component renders after every state update, so a handler that starts    *)
(* sees the current funding set and keeps that value for its whole run.    *)
(***************************************************************************)
\* The finally block with a functional update, as the earlier version has it.
unmarkByUpdater(current, captured, w) == current \ {w}

\* finally { setFunding(new Set([...funding].filter(id => id !== lock_root_hash))) }:
\* funding is the value the handler captured when it started.
unmarkByClosure(current, captured, w) == captured \ {w}

unmark(current, captured, w) ==
    IF wlVariant = "WalletList" THEN unmarkByClosure(current, captured, w)
    ELSE unmarkByUpdater(current, captured, w)

\* The cleanup() of a poll: isCleanedUp is set and a pending timer cleared.
cancelPoll(p) == [p EXCEPT !.cleaned = TRUE, !.pc = IF @ = "timer" THEN "idle" ELSE @]

\* stopPollingForNote(lockRootHash), its effect on the polls.
stoppedPolls(polls, w) ==
    IF pollingCleanups[w] = 0 THEN polls
    ELSE [polls EXCEPT ![pollingCleanups[w]] = cancelPoll(@)]

\* A poll has not been cleaned up: it has a timer pending or a check in flight
\* after which it schedules the next.
activePoll(p) == notePolls[p].pc # "unused" /\ ~notePolls[p].cleaned

unusedSlot(f) == CHOOSE i \in DOMAIN f : f[i].pc = "unused" /\ \A j \in 1..(i - 1) : f[j].pc # "unused"

\* handleFundWallet(wallet) up to its first await; the button is disabled
\* while the wallet is marked as funding (or, in WalletList.tsx, polled).
FundStart ==
    /\ UNCHANGED notList
    /\ isMountedRef
    /\ \E i \in 1..MaxFundings : fundOps[i].pc = "unused"
    /\ \E w \in 1..NumWallets :
          /\ w \notin funding
          /\ wlVariant = "WalletList" => w \notin pollingWallets
          /\ funding' = funding \cup {w}
          /\ fundOps' = [fundOps EXCEPT ![unusedSlot(fundOps)] =
                            [pc |-> "running", wallet |-> w, captured |-> funding]]
    /\ UNCHANGED <<wlVariant, isMountedRef, pollingWallets, pollingCleanups, notePolls>>

\* handleFundWallet from the end of its awaits to its return: on success
\* WalletList.tsx calls startPollingForNote (stop the wallet's poll, add the
\* wallet to pollingWallets, start a poll whose first check runs at once and,
\* the component gone, answers false; store its cleanup); then the finally.
FundFinish ==
    /\ UNCHANGED notList
    /\ \E i \in 1..MaxFundings, ok \in BOOLEAN :
          /\ fundOps[i].pc = "running"
          /\ fundOps' = [fundOps EXCEPT ![i].pc = "done"]
          /\ funding' = unmark(funding, fundOps[i].captured, fundOps[i].wallet)
          /\ IF ok /\ wlVariant = "WalletList"
             THEN /\ \E p \in 1..MaxNotePolls : notePolls[p].pc = "unused"
                  /\ LET w == fundOps[i].wallet
                         p == unusedSlot(notePolls)
                     IN  /\ notePolls' = [stoppedPolls(notePolls, w) EXCEPT ![p] =
                               [pc |-> IF isMountedRef THEN "check" ELSE "timer",
                                wallet |-> w, cleaned |-> FALSE, onIncluded |-> FALSE]]
                         /\ pollingWallets' = pollingWallets \cup {w}
                         /\ pollingCleanups' = [pollingCleanups EXCEPT ![w] = p]
             ELSE UNCHANGED <<pollingWallets, pollingCleanups, notePolls>>
    /\ UNCHANGED <<wlVariant, isMountedRef>>

\* The timer of a poll fires: the maximum duration has passed (cleanup, reject,
\* and the catch of startPollingForNote stops the wallet's poll if the
\* component is mounted), or the next check starts; with the component gone
\* the check answers false at once and the next timer is set.
NotePollTimer ==
    /\ UNCHANGED notList
    /\ \E p \in 1..MaxNotePolls, timedOut \in BOOLEAN :
          /\ notePolls[p].pc = "timer"
          /\ IF timedOut
             THEN LET ended == [notePolls EXCEPT ![p] = cancelPoll(@)]
                      w == notePolls[p].wallet
                  IN  IF isMountedRef
                      THEN /\ notePolls' = stoppedPolls(ended, w)
                           /\ pollingCleanups' = [pollingCleanups EXCEPT ![w] = 0]
                           /\ pollingWallets' = pollingWallets \ {w}
                      ELSE /\ notePolls' = ended
                           /\ UNCHANGED <<pollingCleanups, pollingWallets>>
             ELSE /\ notePolls' = [notePolls EXCEPT ![p].pc =
                                      IF isMountedRef THEN "check" ELSE "timer"]
                  /\ UNCHANGED <<pollingCleanups, pollingWallets>>
    /\ UNCHANGED <<wlVariant, isMountedRef, funding, fundOps>>

\* The balance query of a poll returns: with notes, the poll cleans up, calls
\* onIncluded (which, the component mounted, awaits loadWallets) and resolves,
\* and the then of startPollingForNote stops the wallet's poll if the
\* component is mounted; without notes the next timer is set unless the poll
\* was cleaned up.
NotePollCheckReturn ==
    /\ UNCHANGED notList
    /\ \E p \in 1..MaxNotePolls, isIncluded \in BOOLEAN :
          /\ notePolls[p].pc = "check"
          /\ IF isIncluded
             THEN LET ended == [notePolls EXCEPT ![p] =
                                   [@ EXCEPT !.pc = "idle", !.cleaned = TRUE,
                                             !.onIncluded = isMountedRef]]
                      w == notePolls[p].wallet
                  IN  IF isMountedRef
                      THEN /\ notePolls' = stoppedPolls(ended, w)
                           /\ pollingCleanups' = [pollingCleanups EXCEPT ![w] = 0]
                           /\ pollingWallets' = pollingWallets \ {w}
                      ELSE /\ notePolls' = ended
                           /\ UNCHANGED <<pollingCleanups, pollingWallets>>
             ELSE /\ notePolls' = [notePolls EXCEPT ![p].pc =
                                      IF notePolls[p].cleaned THEN "idle" ELSE "timer"]
                  /\ UNCHANGED <<pollingCleanups, pollingWallets>>
    /\ UNCHANGED <<wlVariant, isMountedRef, funding, fundOps>>

\* onIncluded after await loadWallets(): stopPollingForNote(lockRootHash).
OnIncludedStop ==
    /\ UNCHANGED notList
    /\ \E p \in 1..MaxNotePolls :
          /\ notePolls[p].onIncluded
          /\ LET w == notePolls[p].wallet
             IN  /\ notePolls' = [stoppedPolls(notePolls, w) EXCEPT ![p].onIncluded = FALSE]
                 /\ pollingCleanups' = [pollingCleanups EXCEPT ![w] = 0]
                 /\ pollingWallets' = pollingWallets \ {w}
    /\ UNCHANGED <<wlVariant, isMountedRef, funding, fundOps>>

\* The cleanup of the effect: isMountedRef.current = false, every stored
\* cleanup is called, the map is cleared.  The earlier version stores none.
Unmount ==
    /\ UNCHANGED notList
    /\ isMountedRef
    /\ isMountedRef' = FALSE
    /\ notePolls' = [p \in 1..MaxNotePolls |->
                        IF \E w \in 1..NumWallets : pollingCleanups[w] = p
                        THEN cancelPoll(notePolls[p]) ELSE notePolls[p]]
    /\ pollingCleanups' = [w \in 1..NumWallets |-> 0]
    /\ UNCHANGED <<wlVariant, funding, fundOps, pollingWallets>>

NextList ==
    \/ FundStart
    \/ FundFinish
    \/ NotePollTimer
    \/ NotePollCheckReturn
    \/ OnIncludedStop
    \/ Unmount

InitList ==
    /\ NoPoll
    /\ GrpcLoaded
    /\ WalletAtRest
    /\ NoAcceptance
    /\ NoSelection
    /\ NoCreate
    /\ NoBuild
    /\ NoMerge
    /\ managerCreated
    /\ listMounted({"WalletList", "part_004"})
    /\ NoValidation

SpecList == InitList /\ [][NextList]_vars

(***************************************************************************)
(* validateSignedTransaction (utils/wasm-utils.ts and its earlier version) *)
(***************************************************************************)
\* await ensureWasmInitialized() stands before the try block: its rejection
\* is the rejection of the call.  Inside the try, fromProtobuf of a malformed
\* input, the comparison of the notes with the spend conditions and
\* builder.validate() throw into the catch, which returns {valid: false, error};
\* so does rawTx.recalcId(), which only the earlier version calls.
validateSignedTransaction(params) ==
    IF ~params.wasmInitialised
    THEN [threw |-> TRUE, valid |-> FALSE, error |-> "WasmInit"]
    ELSE IF params.malformed
    THEN [threw |-> FALSE, valid |-> FALSE, error |-> "FromProtobuf"]
    ELSE IF params.mismatch
    THEN [threw |-> FALSE, valid |-> FALSE, error |-> "SpendConditionMismatch"]
    ELSE IF params.validateFails
    THEN [threw |-> FALSE, valid |-> FALSE, error |-> "Validate"]
    ELSE IF vVersion = "part_007" /\ params.recalcIdFails
    THEN [threw |-> FALSE, valid |-> FALSE, error |-> "RecalcId"]
    ELSE [threw |-> FALSE, valid |-> TRUE, error |-> "none"]

ValidateSignedTransaction ==
    /\ UNCHANGED notValidate
    /\ vPc = "called"
    /\ vPc' = "settled"
    /\ vResult' = validateSignedTransaction(vParams)
    /\ UNCHANGED <<vVersion, vParams>>

NextValidate == ValidateSignedTransaction

InitValidate ==
    /\ NoPoll
    /\ GrpcLoaded
    /\ WalletAtRest
    /\ NoAcceptance
    /\ NoSelection
    /\ NoCreate
    /\ NoBuild
    /\ NoMerge
    /\ managerCreated
    /\ NoList
    /\ validationCalled({"wasm-utils", "part_007"}, BOOLEAN, BOOLEAN)

SpecValidate == InitValidate /\ [][NextValidate]_vars

(***************************************************************************)
(* The polls under the event loop's scheduling: a timer that is due fires, *)
(* an awaited check settles, time passes.                                  *)
(***************************************************************************)
FairPoll ==
    /\ SpecPoll
    /\ WF_vars(PollTimerFire)
    /\ WF_vars(PollCheckReturn)
    /\ WF_vars(PlainTimerFire)
    /\ WF_vars(PlainCheckReturn)
    /\ WF_vars(Tick)

(***************************************************************************)
(* Claims C6 - C10                                                         *)
(***************************************************************************)

\* C6: for every endpoint at most one construction of the connection is in
\* flight, at most one connection instance exists, and every caller that
\* was handed a connection was handed that one.
C6_SingleSharedInstance ==
    \A e \in Endpoints :
        /\ Cardinality({i \in instances : i.endpoint = e}) <= 1
        /\ Cardinality({p \in 1..MaxConstructions :
                           promiseState[p] = "pending" /\ promiseEp[p] = e}) <= 1
        /\ \A c \in Callers :
              (callers[c].pc = "done" /\ callers[c].ep = e /\ callers[c].got > 0)
                 => callers[c].got = grpcClients[e]

\* C7: after a connection failure nothing broken stays cached: a rejected
\* construction is not the endpoint's cached in-progress construction, a
\* failed initialisation is not the cached initialisation, and a provider
\* that failed to connect is not kept.
C7_FailureResetsCache ==
    /\ \A p \in 1..MaxConstructions :
          promiseState[p] = "rejected" => grpcClientPromises[promiseEp[p]] # p
    /\ wasmInitializing # "rejected"
    /\ provFailed => providerRef = "null"

\* C8: once cleanup() has been called (also while a check is in flight) no
\* timer of the poll remains scheduled and checkFn is not invoked again.
C8_CleanupLeavesNoTimer ==
    isCleanedUp => (timers = {} /\ ~checkAfterCleanup)

\* C8 witness: cleanup() was called while a check was in flight, the check
\* has returned "not included", and the poll is at rest with no timer.
C8_Witness ==
    /\ cleanupAt = "inFlight"
    /\ isCleanedUp
    /\ pollPc = "idle"
    /\ promise = "pending"

\* C9: if cleanup() is called before inclusion has been observed, the
\* promise of the poll eventually rejects.
C9_CleanupEventuallyRejects ==
    (cleanupAt \in {"inFlight", "timerPending"} /\ promise = "pending")
        ~> (promise \in {"rejected_cancelled", "rejected_timeout"})

\* C10: pollForTransactionInclusion stops polling once the check returned
\* true or the maximum duration was reached, and its promise resolves to
\* true in the first case and to false in the second.
C10_ResolvesTrueOrFalse ==
    /\ pSawIncluded => pPromise = "resolved_true"
    /\ pSawTimeout => pPromise = "resolved_false"
    /\ (pSawIncluded \/ pSawTimeout) => (pTimers = {} /\ pPc = "idle")

(***************************************************************************)
(* Claims C1 - C5                                                          *)
(***************************************************************************)

\* C1: when a proposal is broadcast, every id polled for acceptance and the
\* id handed to mark-broadcast as the record is the one recomputed from the
\* merged transaction, never the proposal's own tx_id nor a fragment's id.
C1_RecalcIdPolledAndRecorded ==
    \A c \in Clients :
        flow[c].op = "broadcast" =>
           /\ flow[c].polled \subseteq {RecalcId(flow[c].wit)}
           /\ flow[c].pc = "mark" => flow[c].markArg = RecalcId(flow[c].wit)

\* C2: every transaction handed to sendTransaction was validated, with
\* success, earlier in the same flow.
C2_ValidatedBeforeEverySend ==
    \A c \in Clients : flow[c].sent => flow[c].validated

\* C3: when the acceptance polls run out after a proposal's transaction or
\* a direct spend was sent, the flow does not report the transaction as
\* failed or not accepted.
C3_PollTimeoutIsNotFailure ==
    \A c \in Clients :
        (flow[c].op \in {"broadcast", "build"} /\ flow[c].sent /\ flow[c].timedOut)
            => flow[c].report # "NotAccepted"

\* C4: a broadcast attempt on a proposal with fewer signatures than the
\* threshold ends before the merge: no merge, nothing sent, the handler is
\* over with "not enough signatures", and the proposal is left as it was.
C4_TooFewSignaturesRejectedBeforeMerge ==
    [][\A c \in Clients :
          (/\ flow[c].op = "idle"
           /\ flow'[c].op = "broadcast"
           /\ Len(proposal.signatures) < proposal.threshold)
          => /\ flow'[c].report = "NotEnoughSignatures"
             /\ flow'[c].pc = "done"
             /\ ~flow'[c].mergeCalled
             /\ ~flow'[c].sent
             /\ mempool' = mempool
             /\ proposal' = proposal]_vars

\* C4 witness: a broadcast of a pending proposal that holds fewer
\* signatures than its threshold has been turned down.
C4_Witness ==
    \E c \in Clients :
        /\ flow[c].report = "NotEnoughSignatures"
        /\ proposal.status = "pending"
        /\ Len(proposal.signatures) < proposal.threshold

\* The lock root recomputed from (threshold, participants as listed)
\* differs from the recorded lock root of a selected note.
LockRootDiffers ==
    \E i \in DOMAIN noteInputs :
        noteInputs[i].nameFirst # LockRoot(threshold, participants)

C11_BoundedPoll ==
    /\ [](/\ aQueries <= aMaxAttempts
          /\ aPc # "wait" => aClock = aWaits * aIntervalMs
          /\ aPc \in {"getClient", "query", "returned_true"} =>
                (aWaits = aAttempt /\ aAttempt < aMaxAttempts)
          /\ aPc = "wait" => (aWaits = aAttempt + 1 /\ aAttempt < aMaxAttempts - 1)
          /\ aSawAccepted <=> aPc = "returned_true"
          /\ aPc = "threw" =>
                /\ aAttempt = aMaxAttempts
                /\ aWaits = Max(aMaxAttempts - 1, 0)
                /\ ~aSawAccepted)
    /\ <>(aPc \in {"returned_true", "threw"})

\* C11 witness: every attempt asked the node, none was accepted, and the
\* function threw after MaxAttempts attempts and MaxAttempts - 1 waits.
C11_Witness ==
    /\ aPc = "threw"
    /\ aMaxAttempts = MaxAttempts
    /\ aQueries = MaxAttempts
    /\ aClock = (MaxAttempts - 1) * aIntervalMs

\* C12 as stated: the selection returns null exactly when the notes together
\* hold less than the target, and otherwise a subset of the notes that
\* reaches the target and from which no member can be dropped.
C12_EnoughOrInsufficient ==
    selPc = "returned" =>
       LET sel == selResult.selected IN
       /\ selResult.null <=> totalInputNicks(selNotes) < selTarget
       /\ ~selResult.null =>
             /\ \A i \in 1..Len(sel) : sel[i] = selNotes[sel[i].id]
             /\ \A i, j \in 1..Len(sel) : sel[i].id = sel[j].id => i = j
             /\ totalInputNicks(sel) >= selTarget
             /\ \A i \in 1..Len(sel) : totalInputNicks(sel) - sel[i].assets < selTarget

\* C12 amended: the selection returns null exactly when there is no note or
\* the notes together hold less than the target, and otherwise a non-empty
\* subset of the notes that reaches the target and from which no member can
\* be dropped, unless it is the only member.
C12_EnoughOrNothingToSelect ==
    selPc = "returned" =>
       LET sel == selResult.selected IN
       /\ selResult.null <=> (selNotes = <<>> \/ totalInputNicks(selNotes) < selTarget)
       /\ ~selResult.null =>
             /\ Len(sel) >= 1
             /\ \A i \in 1..Len(sel) : sel[i] = selNotes[sel[i].id]
             /\ \A i, j \in 1..Len(sel) : sel[i].id = sel[j].id => i = j
             /\ totalInputNicks(sel) >= selTarget
             /\ \A i \in 1..Len(sel) :
                   \/ totalInputNicks(sel) - sel[i].assets < selTarget
                   \/ Len(sel) = 1

\* C12 witness: two of three notes were selected for a positive target.
C12_Witness ==
    /\ selPc = "returned"
    /\ ~selResult.null
    /\ selTarget > 0
    /\ Len(selNotes) = 3
    /\ Len(selResult.selected) = 2

\* C13 as stated: a successful selection is the shortest prefix (the empty
\* one included) of the notes in descending order of amount, equal amounts
\* in input order, whose total reaches the target.
C13_ShortestSortedPrefix ==
    (selPc = "returned" /\ ~selResult.null) =>
       LET before(m, n) == m.assets > n.assets \/ (m.assets = n.assets /\ m.id < n.id)
           rank(n) == 1 + Cardinality({j \in DOMAIN selNotes : before(selNotes[j], n)})
           ordered == [r \in DOMAIN selNotes |->
                          selNotes[CHOOSE j \in DOMAIN selNotes : rank(selNotes[j]) = r]]
           prefix(k) == SubSeq(ordered, 1, k)
       IN \E k \in 0..Len(selNotes) :
             /\ selResult.selected = prefix(k)
             /\ totalInputNicks(prefix(k)) >= selTarget
             /\ \A j \in 0..(k - 1) : totalInputNicks(prefix(j)) < selTarget

\* C13 amended: a successful selection is the shortest non-empty prefix of
\* the notes in descending order of amount, equal amounts in input order,
\* whose total reaches the target.
C13_ShortestNonEmptySortedPrefix ==
    (selPc = "returned" /\ ~selResult.null) =>
       LET before(m, n) == m.assets > n.assets \/ (m.assets = n.assets /\ m.id < n.id)
           rank(n) == 1 + Cardinality({j \in DOMAIN selNotes : before(selNotes[j], n)})
           ordered == [r \in DOMAIN selNotes |->
                          selNotes[CHOOSE j \in DOMAIN selNotes : rank(selNotes[j]) = r]]
           prefix(k) == SubSeq(ordered, 1, k)
       IN \E k \in 1..Len(selNotes) :
             /\ selResult.selected = prefix(k)
             /\ totalInputNicks(prefix(k)) >= selTarget
             /\ \A j \in 1..(k - 1) : totalInputNicks(prefix(j)) < selTarget

\* C13 witness: of three notes of the same amount given in order, the
\* first two were selected, in that order.
C13_Witness ==
    /\ selPc = "returned"
    /\ ~selResult.null
    /\ Len(selNotes) = 3
    /\ \A i \in 1..3 : selNotes[i].assets = selNotes[1].assets
    /\ Len(selResult.selected) = 2
    /\ selResult.selected[1].id = 1
    /\ selResult.selected[2].id = 2

(***************************************************************************)
(* Claims C14 - C18: the proposal endpoints                                *)
(***************************************************************************)

\* C14: a proposal that has not been broadcast is pending exactly while it
\* holds fewer signatures than its threshold and ready exactly when it
\* holds threshold or more; a step that adds the signature reaching the
\* threshold is the step that makes it ready.
C14_PendingBelowThresholdReadyAtThreshold ==
    /\ [](proposal.status \in {"pending", "ready"} =>
            /\ proposal.status = "pending" <=> Len(proposal.signatures) < proposal.threshold
            /\ proposal.status = "ready" <=> Len(proposal.signatures) >= proposal.threshold)
    /\ [][(proposal.status = "pending" /\ proposal'.status = "ready") <=>
             (/\ proposal.status = "pending"
              /\ Len(proposal.signatures) < proposal.threshold
              /\ Len(proposal'.signatures) >= proposal'.threshold
              /\ proposal'.status # "broadcast")]_vars

\* C14 witness: a proposal with the largest threshold has become ready with
\* exactly threshold signatures.
C14_Witness ==
    /\ proposal.status = "ready"
    /\ proposal.threshold = MaxThreshold
    /\ Len(proposal.signatures) = MaxThreshold
    /\ response = "signed"

\* C16: a proposal never holds two fragments of one signer, and a
\* submission by a signer who is already present leaves the number of
\* fragments unchanged and puts the submitted fragment in the place of
\* that signer's earlier one.
C16_OneFragmentPerSigner ==
    /\ [](\A i, j \in 1..Len(proposal.signatures) :
             proposal.signatures[i].signer = proposal.signatures[j].signer => i = j)
    /\ [][\A s \in Signers : \A frag \in signedFragments(s) :
             (PostSign(s, frag) /\ hasAlreadySigned(proposal, s)) =>
                /\ Len(proposal'.signatures) = Len(proposal.signatures)
                /\ \A i \in 1..Len(proposal.signatures) :
                      proposal'.signatures[i] =
                         IF proposal.signatures[i].signer = s
                         THEN frag ELSE proposal.signatures[i]]_vars

\* C16 witness: the proposer, the only signer so far, has submitted again
\* and the proposal still holds one fragment, the recomputed one.
C16_Witness ==
    /\ Len(proposal.signatures) = 1
    /\ proposal.signatures[1] = [signer |-> 1, id |-> RecalcId({1})]
    /\ proposal.threshold = MaxThreshold
    /\ response = "signed"

\* C17: the signers a proposal holds are exactly the participants whose
\* submissions were delivered, whatever the order and the repeats, the
\* status of a proposal not yet broadcast depends on that set alone, and
\* the set of signers never shrinks.
C17_SignersAreTheUnionOfSubmissions ==
    /\ [](LET signers == {proposal.signatures[i].signer : i \in 1..Len(proposal.signatures)}
          IN /\ signers = {s \in submitted : authorizedSigner(s)}
             /\ proposal.status \in {"pending", "ready"} =>
                   proposal.status =
                      (IF Cardinality({s \in submitted : authorizedSigner(s)})
                             >= proposal.threshold
                       THEN "ready" ELSE "pending"))
    /\ [][{proposal.signatures[i].signer : i \in 1..Len(proposal.signatures)}
             \subseteq {proposal'.signatures[i].signer : i \in 1..Len(proposal'.signatures)}]_vars

\* C17 witness: three signers were delivered with the last participant
\* first and the first participant last, one of them more than once.
C17_Witness ==
    /\ Len(proposal.signatures) = NumSigners
    /\ proposal.signatures[1].signer = NumSigners
    /\ proposal.signatures[NumSigners].signer = 1
    /\ proposal.signatures[1].id = RecalcId({NumSigners})
    /\ proposal.status = "ready"

\* C18: a submission signed by somebody who is not a participant of the
\* wallet is answered with UnauthorizedSigner and leaves the proposal, its
\* signatures and its status as they were.
C18_OutsiderIsRejected ==
    [][\A frag \in signedFragments(Outsider) :
          PostSign(Outsider, frag) =>
             /\ response' = "UnauthorizedSigner"
             /\ proposal' = proposal]_vars

\* C18 witness: an outsider's submission has just been turned down on a
\* pending proposal.
C18_Witness ==
    /\ response = "UnauthorizedSigner"
    /\ Outsider \in submitted
    /\ proposal.status = "pending"

(***************************************************************************)
(* Claims C15, C19, C20                                                    *)
(***************************************************************************)

\* C15: a proposal becomes broadcast only from ready, and a broadcast
\* started on a proposal that is not ready ends before anything is merged
\* or sent and leaves the proposal as it was.
C15_BroadcastOnlyFromReady ==
    [][/\ (proposal.status # "broadcast" /\ proposal'.status = "broadcast")
             => proposal.status = "ready"
       /\ \A c \in Clients :
             (/\ flow[c].op = "idle"
              /\ flow'[c].op = "broadcast"
              /\ proposal.status # "ready")
             => /\ flow'[c].pc = "done"
                /\ ~flow'[c].mergeCalled
                /\ proposal' = proposal]_vars

C20_ThresholdOneBypassesProposals ==
    threshold = 1 =>
       /\ proposal = NoProposal
       /\ \A c \in Clients :
             flow[c].op = "build" =>
                /\ flow[c].pc # "propose"
                /\ flow[c].report \notin {"Proposed", "ProposeFailed"}
                /\ flow[c].sent =>
                      /\ flow[c].variant = "direct"
                      /\ flow[c].signed
                      /\ flow[c].validated
                      /\ flow[c].wit = {c}

\* C20 witness: a direct spend of a threshold-1 wallet was sent, accepted
\* and recorded in the history, with no proposal.
C20_Witness ==
    /\ threshold = 1
    /\ proposal = NoProposal
    /\ history # {}
    /\ \E c \in Clients : flow[c].op = "build" /\ flow[c].report = "Sent"

(***************************************************************************)
(* Claims C21 - C23                                                        *)
(***************************************************************************)
signersOf(p) == {p.signatures[i].signer : i \in 1..Len(p.signatures)}

\* C21: a proposal is created holding the proposer's signed fragment: on the
\* step that creates it the signers are exactly the proposer, who is the
\* client whose handler signed and proposed, and no proposal exists without
\* the proposer's signature.
C21_CreatedWithProposerSignature ==
    /\ [](proposal.status # "none" => proposal.proposer_pkh \in signersOf(proposal))
    /\ [][(proposal.status = "none" /\ proposal'.status # "none")
            => /\ signersOf(proposal') = {proposal'.proposer_pkh}
               /\ \E c \in Clients :
                     /\ flow[c].pc = "propose"
                     /\ flow[c].signed
                     /\ flow'[c].report = "Proposed"
                     /\ proposal'.proposer_pkh = c
                     /\ proposal'.signatures = <<signRawTx(c)>>]_vars

\* C21 witness: a proposal that other signers have joined still holds the
\* proposer's fragment.
C21_Witness ==
    /\ proposal.status \in {"pending", "ready"}
    /\ Len(proposal.signatures) >= 2
    /\ proposal.proposer_pkh \in signersOf(proposal)
    /\ \E c \in Clients : flow[c].report = "Proposed" /\ proposal.proposer_pkh = c

\* The stored fragments of the signers in W, in the order they were submitted.
fragmentsOf(W) == SelectSeq(proposal.signatures, LAMBDA f : f.signer \in W)

\* C22: once a client has merged and recalculated, the identifier it holds
\* is the one the merge of any subset of at least threshold of the
\* proposal's fragments recalculates to.
C22_AnySufficientSubsetGivesTheSameId ==
    \A c \in Clients :
        (flow[c].op = "broadcast" /\ flow[c].variant \in {"v2", "v3"} /\ flow[c].validated)
            => \A W \in SUBSET signersOf(proposal) :
                  Cardinality(W) >= proposal.threshold
                     => RecalcId(mergeSignatures(fragmentsOf(W), proposal.threshold))
                           = RecalcId(flow[c].wit)

\* C23: when the stored fragments differ in their seeds the handler ends
\* with the merge refused: there is no merged transaction and nothing is sent.
C23_DifferingFragmentsAreNotMerged ==
    (mPc = "returned" /\ Len(mFrags) >= mThreshold /\ seedsDiffer(mFrags))
        => /\ mResult.outcome = "MergeFailed"
           /\ mResult.wit = {}
           /\ ~mResult.sent

(***************************************************************************)
(* Claim C30                                                               *)
(***************************************************************************)
policyInvalid(t, ps) == Len(ps) = 0 \/ t < 1 \/ t > Len(ps)

builtTx == bPc = "returned" /\ bResult.outcome = "built"

requestedNicks == totalOutputNicks(validSeeds(bSeeds))

\* C24: in every transaction that was built, every spend's note holds
\* exactly the sum of the spend's seeds (the refund among them) plus the
\* spend's share of the fee, and the shares add up to the fee.
C24_EveryBuiltSpendBalances ==
    builtTx =>
        /\ Len(bResult.spends) = Len(bNotes)
        /\ \A i \in DOMAIN bResult.spends :
              LET sp == bResult.spends[i]
              IN /\ sp.assets = bNotes[i].assets
                 /\ sp.refund >= 0 /\ sp.fee >= 0
                 /\ sp.assets = sumGifts(sp.seeds) + sp.refund + sp.fee
        /\ curFee(bResult.spends) = bResult.curFee

\* C24 witness: a transaction of two spends in which the fee is larger than
\* the first spend's refund, so both spends carry a share of it.
C24_Witness ==
    /\ builtTx
    /\ Len(bResult.spends) = 2
    /\ bResult.spends[1].seeds # <<>>
    /\ bResult.spends[1].fee > 0
    /\ bResult.spends[2].fee > 0
    /\ bResult.spends[2].refund > 0

\* C25: a transaction is built only after the balance of the spends was
\* tested once the fee had been set and the refunds rebalanced.
C25_BalanceTestedAfterTheFeeIsSet ==
    builtTx =>
        \E i, j, k \in DOMAIN bResult.steps :
            /\ i < j /\ j < k
            /\ bResult.steps[i] = "setFeeAndBalanceRefund"
            /\ bResult.steps[j] = "isBalanced"
            /\ bResult.steps[k] = "build"

\* C26: when the notes do not hold the requested outputs plus the
\* calculated fee, the function throws, no transaction comes back and the
\* handler does not reach the signature.
C26_UncoveredBuildYieldsNothing ==
    (bPc = "returned" /\ totalInputNicks(bNotes) < requestedNicks + calcFee(bWords))
        => /\ bResult.outcome \notin {"built", "none"}
           /\ bResult.spends = <<>>
           /\ ~bSigned

\* C26 witness: the notes pass the estimate but not the calculated fee; the
\* function threw after calcFee and nothing was signed.
C26_Witness ==
    /\ bPc = "returned"
    /\ bResult.outcome = "InsufficientFundsForFee"
    /\ totalInputNicks(bNotes) < requestedNicks + calcFee(bWords)
    /\ bResult.spends = <<>>
    /\ ~bSigned

\* C27: a build is refused for lack of funds only when the notes do not
\* hold the outputs plus the calculated fee, and the fee of a built
\* transaction is the calculated one.
C27_OnlyTheCalculatedFeeDecides ==
    /\ (bPc = "returned" /\ bResult.outcome = "InsufficientFunds")
          => totalInputNicks(bNotes) < requestedNicks + calcFee(bWords)
    /\ builtTx => bResult.curFee = calcFee(bWords)

\* C28: the spend of one note of 100000 nicks to one seed of 30000 nicks is
\* built, with the calculated fee as its fee and 100000 - 30000 - fee as
\* its refund.
C28_ScenarioA ==
    (/\ bPc = "returned"
     /\ bNotes = <<[id |-> 1, assets |-> 100000]>>
     /\ Len(bSeeds) = 1
     /\ giftNicks(bSeeds[1]) = 30000)
        => /\ bResult.outcome = "built"
           /\ bResult.curFee = bResult.calcFee
           /\ bResult.spends[1].refund = 100000 - 30000 - bResult.curFee

\* C29: in every built transaction the requested seeds are the seeds of the
\* first spend, in order, each with the first note's hash as parent, and
\* the other spends hold nothing but their refund.
C29_SeedsOnTheAnchorSpendOnly ==
    builtTx =>
        LET vs == validSeeds(bSeeds)
            anchor == bResult.spends[1]
        IN /\ Len(anchor.seeds) = Len(vs)
           /\ \A n \in DOMAIN vs :
                 /\ anchor.seeds[n].gift = giftNicks(vs[n])
                 /\ anchor.seeds[n].parentHash = noteHash(bNotes[1])
           /\ anchor.note = bNotes[1].id
           /\ \A i \in 2..Len(bResult.spends) :
                 /\ bResult.spends[i].seeds = <<>>
                 /\ bResult.spends[i].refund + bResult.spends[i].fee
                       = bResult.spends[i].assets

\* C29 witness: two notes and two requested seeds; both seeds sit on the
\* first spend and the second spend holds its refund only.
C29_Witness ==
    /\ builtTx
    /\ Len(bResult.spends) = 2
    /\ Len(validSeeds(bSeeds)) = 2
    /\ Len(bResult.spends[1].seeds) = 2
    /\ bResult.spends[2].seeds = <<>>
    /\ bResult.spends[2].refund > 0


(***************************************************************************)
(* Claim C31                                                               *)
(***************************************************************************)
\* The participants ps in every order.
Reorderings(ps) ==
    {[i \in 1..Len(ps) |-> ps[f[i]]] :
        f \in {g \in [1..Len(ps) -> 1..Len(ps)] :
                  \A i, j \in 1..Len(ps) : i # j => g[i] # g[j]}}

C32_FreeInvokedAtMostOnce ==
    \A h \in hRegistered : hFreeCalls[h] <= 1

\* C33: when a function has returned or thrown, every WASM object it
\* acquired has been freed or handed to the manager, which frees it on
\* cleanup.
C33_EveryHandleReleasedOnExit ==
    rmLast.op \in {"computeLockRootHash", "discover returned", "discover threw",
                   "build returned", "build threw"}
        => \A h \in rmLast.acquired : hFreeCalls[h] > 0 \/ h \in hRegistered

lastIndex(seq, x) ==
    CHOOSE i \in DOMAIN seq : seq[i] = x /\ \A j \in DOMAIN seq : seq[j] = x => j <= i

\* C34: cleanup() invokes free() on exactly the registered objects it has not
\* freed before, each once, and in the reverse of the order of their
\* registration (the latest registration of an object counts); the list is
\* empty afterwards.
C34_CleanupFreesInReverseOrder ==
    rmLast.op = "cleanup" =>
        /\ Range(rmLast.frees) = Range(rmLast.objects) \ rmLast.freedBefore
        /\ \A i, j \in DOMAIN rmLast.frees :
              i < j => lastIndex(rmLast.objects, rmLast.frees[i])
                          > lastIndex(rmLast.objects, rmLast.frees[j])
        /\ rmObjects = <<>>

C34_Witness ==
    /\ rmLast.op = "cleanup"
    /\ Len(rmLast.frees) = 3
    /\ rmLast.objects = <<rmLast.frees[3], rmLast.frees[2], rmLast.frees[1]>>


(***************************************************************************)
(* Claim C35                                                               *)
(***************************************************************************)

\* C35: once cleanup() has been called from outside, onIncluded is never
\* invoked and the promise never resolves to true, also when a check that
\* was in flight at the time reports inclusion afterwards.
C35_NothingReportedAfterCleanup ==
    (cleanupAt # "none" /\ onIncludedCalls > 0) => ~includedAfterCleanup


(***************************************************************************)
(* Claim C36                                                               *)
(***************************************************************************)

\* C36: the proposal becomes "broadcast" only by the mark request of a
\* broadcast handler whose sendTransaction returned without error, the node
\* having been sent the merged transaction; a handler whose send throws ends
\* there, with the report of the failed send and the proposal as it was.
C36_MarkedOnlyAfterSuccessfulSend ==
    [][/\ (proposal.status # "broadcast" /\ proposal'.status = "broadcast")
              => \E c \in Clients :
                    /\ flow[c].op = "broadcast"
                    /\ flow[c].pc = "mark"
                    /\ flow[c].sent
                    /\ CanonicalId(flow[c]).kind \in mempool
                    /\ flow'[c].report = "Broadcast"
       /\ \A c \in Clients :
             (flow[c].pc = "send" /\ flow'[c].pc \notin {"send", "poll"})
                 => /\ flow'[c].pc = "done"
                    /\ flow'[c].report = "SendFailed"
                    /\ mempool' = mempool
                    /\ proposal' = proposal
      ]_vars

\* C36 witness: one client's send of the merged transaction failed and the
\* proposal stayed ready; another client sent it and marked the proposal.
C36_Witness ==
    /\ proposal.status = "broadcast"
    /\ \E c, d \in Clients :
          /\ flow[c].op = "broadcast" /\ flow[c].report = "Broadcast"
          /\ flow[d].op = "broadcast" /\ flow[d].report = "SendFailed"


(***************************************************************************)
(* Claims C37, C38                                                         *)
(***************************************************************************)

\* C37: the wallets marked as funding are exactly the wallets with a call of
\* handleFundWallet in flight: none is unmarked while its call runs, none
\* stays marked once every call has finished.
C37_FundingMarksAreTheRunningOperations ==
    funding = {fundOps[i].wallet : i \in {j \in 1..MaxFundings : fundOps[j].pc = "running"}}

\* C38: at most one inclusion poll is active per lock root, and none is
\* active once the wallet list has unmounted.
C38_OnePollPerWalletNoneAfterUnmount ==
    /\ \A p, q \in 1..MaxNotePolls :
          (activePoll(p) /\ activePoll(q) /\ notePolls[p].wallet = notePolls[q].wallet) => p = q
    /\ ~isMountedRef => \A p \in 1..MaxNotePolls : ~activePoll(p)


(***************************************************************************)
(* Claim C39                                                               *)
(***************************************************************************)

\* C39: validateSignedTransaction never throws: every failure, a failed WASM
\* initialisation included, is returned as {valid: false, error}, and
\* valid: true is returned only when builder.validate() ran without error.
C39_EveryFailureIsAResult ==
    vPc = "settled" =>
        /\ ~vResult.threw
        /\ vResult.valid => (/\ vParams.wasmInitialised
                             /\ ~vParams.malformed
                             /\ ~vParams.mismatch
                             /\ ~vParams.validateFails)
        /\ ~vResult.valid => vResult.error # "none"

=============================================================================
